---- MODULE Spec2Model ----
(***************************************************************************)
(* A state-machine model of the sundae-strategies library (custody ledger, *)
(* event handlers, submission) and of the three workers built on it        *)
(* (stop-loss, trailing-stop-loss, symmetrical-grid).                      *)
(*                                                                         *)
(* Conventions                                                             *)
(*   Option<T>   : <<>> is None, <<x>> is Some(x).                         *)
(*   f64         : an exact rational <<n, d>> with d > 0; comparisons are  *)
(*                 by cross multiplication, floor is the integer floor.    *)
(*   kv store    : one variable per key family; a missing key reads None.  *)
(***************************************************************************)
EXTENDS Integers, Sequences, FiniteSets, TLC

VARIABLES
    public_keys,      \* Option: the public key registered under STRATEGY_KEY
    config,           \* the worker's configuration (fixed for a run)
    managed_orders,   \* kv value under KV_MANAGED_ORDERS: Seq(ManagedStrategy)
    inflight,         \* overlapping invocations: [Procs -> invocation record]
    last,             \* what the most recent invocation was and how it ended
    live,             \* history: refs recorded as owned and not released
                      \*          since, in the order the writes landed
    overlapped,       \* history: a kv::set landed while another invocation
                      \*          held a copy of the list it had read earlier
    events,           \* how many overlapping invocations have begun
    peak_price,       \* kv values under "peak_price:<tx>#<ix>": ref -> f64
    grid_state,       \* kv values under "grid_state:<auth>": auth -> GridState
    track             \* history: per order, what the worker used and saw

worker_state == <<peak_price, grid_state, track>>

vars == <<public_keys, config, managed_orders, inflight, last, live,
          overlapped, events, peak_price, grid_state, track>>

-----------------------------------------------------------------------------
(* Bounds *)

MaxOrders == 3        \* longest custody list explored
MaxInputs == 2        \* most inputs of one transaction
MaxEvents == 4        \* most invocations begun in an overlapping run

-----------------------------------------------------------------------------
(* Option *)

None == <<>>
Some(x) == <<x>>
IsSome(o) == Len(o) = 1
Unwrap(o) == o[1]

\* the one element of a singleton set: Only({F(x) : x \in {e}}) is F(e) with
\* e evaluated once
Only(S) == CHOOSE x \in S : TRUE

-----------------------------------------------------------------------------
(* f64 values as exact rationals <<n, d>>, d > 0 *)

RECURSIVE Gcd(_, _)
Gcd(a, b) == IF b = 0 THEN a ELSE Gcd(b, a % b)
\* the one representative of a value: lowest terms
RDiv(x, g) == <<x[1] \div g, x[2] \div g>>
RNorm(x) == IF x[1] = 0 THEN <<0, 1>> ELSE RDiv(x, Gcd(x[1], x[2]))

\* x < y, the denominators first divided by what they share
RLtBy(x, y, g) ==
    IF g = 0 THEN x[1] * y[2] < y[1] * x[2]
    ELSE x[1] * (y[2] \div g) < y[1] * (x[2] \div g)
RSmall(x) == x[1] < 46340 /\ x[2] < 46340
RLt(x, y) == IF RSmall(x) /\ RSmall(y) THEN x[1] * y[2] < y[1] * x[2]
             ELSE RLtBy(x, y, Gcd(x[2], y[2]))
REq(x, y) == x[1] * y[2] = y[1] * x[2]
RLe(x, y) == x[1] * y[2] <= y[1] * x[2]
RMul(x, y) == RNorm(<<x[1] * y[1], x[2] * y[2]>>)
RInv(x) == <<x[2], x[1]>>
\* 1.0 - x
ROneMinus(x) == RNorm(<<x[2] - x[1], x[2]>>)
RMax(x, y) == IF RLt(x, y) THEN y ELSE x
RAddBy(x, y, g) ==
    RNorm(<<x[1] * (y[2] \div g) + y[1] * (x[2] \div g),
            x[2] * (y[2] \div g)>>)
RAdd(x, y) == RAddBy(x, y, Gcd(x[2], y[2]))
\* <<x, x^2, .., x^n>> for x in lowest terms: so are its powers
RECURSIVE RPowers(_, _)
RPowers(x, n) ==
    IF n <= 1 THEN <<x>>
    ELSE Only({Append(ps, <<ps[n - 1][1] * x[1], ps[n - 1][2] * x[2]>>) :
                  ps \in {RPowers(x, n - 1)}})
RECURSIVE RSum(_)
RSum(xs) == IF xs = <<>> THEN <<0, 1>> ELSE RAdd(Head(xs), RSum(Tail(xs)))
RInt(n) == <<n, 1>>
\* `as u64` of a non-negative value: the integer part
RFloor(x) == x[1] \div x[2]

RECURSIVE Pow10(_)
Pow10(n) == IF n = 0 THEN 1 ELSE 10 * Pow10(n - 1)

-----------------------------------------------------------------------------
(* types.rs: the data the handlers read *)

OutputReference(tx, ix) == [transaction_id |-> tx, output_index |-> ix]

TxIds == {"T1", "T2"}
Indexes == {0, 1}
Refs == {OutputReference(t, i) : t \in TxIds, i \in Indexes}

Keys == {"K1", "K2"}

\* Order::Strategy { auth: Signature { signer } } and Order::Swap { .. }
OrderStrategy(signer) == [kind |-> "Strategy", signer |-> signer]
OrderSwap == [kind |-> "Swap"]

\* OrderDatum, with the fields the handlers read
OrderDatum(pool_ident, details) ==
    [shape |-> "order", pool_ident |-> pool_ident, details |-> details]

\* a datum that decodes but is no OrderDatum
OtherDatum == [shape |-> "other"]

\* types::try_parse::<OrderDatum>
try_parse_order(bytes) ==
    IF bytes.shape = "order" THEN Some(bytes) ELSE None

\* AssetId; ADA is the asset with empty policy id and empty name
AssetId(policy_id, asset_name) ==
    [policy_id |-> policy_id, asset_name |-> asset_name]
ADA == AssetId("", "")
TokenX == AssetId("PX", "X")
TokenY == AssetId("PY", "Y")

is_ada(asset) == asset.policy_id = "" /\ asset.asset_name = ""

\* TxOutput: the coin and the multi-asset bundle, a sequence of policy groups
\* [policy_id, assets], assets a sequence of [name, output_coin]
TxOutput(coin, assets) == [coin |-> coin, assets |-> assets]
Multiasset(policy_id, assets) == [policy_id |-> policy_id, assets |-> assets]
Asset(name, output_coin) == [name |-> name, output_coin |-> output_coin]

\* the bundle holding `amount` of one token (nothing when amount = 0)
Holding(asset, amount) ==
    IF amount = 0 THEN <<>>
    ELSE <<Multiasset(asset.policy_id, <<Asset(asset.asset_name, amount)>>)>>

\* the inner filter_map(..).next(): the first asset of the group that matches
first_in_group(group, find_asset) ==
    LET hits == {i \in DOMAIN group.assets :
                    /\ group.policy_id = find_asset.policy_id
                    /\ group.assets[i].name = find_asset.asset_name}
    IN  IF hits = {} THEN None
        ELSE Some(group.assets[CHOOSE i \in hits : \A j \in hits : i <= j]
                      .output_coin)

\* asset_amount: the coin for ADA; otherwise the first match of the first
\* group that has one, 0 when there is none
asset_amount(output, find_asset) ==
    IF is_ada(find_asset) THEN output.coin
    ELSE LET groups == {g \in DOMAIN output.assets :
                           IsSome(first_in_group(output.assets[g], find_asset))}
         IN  IF groups = {} THEN 0
             ELSE Unwrap(first_in_group(
                      output.assets[CHOOSE g \in groups :
                                        \A h \in groups : g <= h],
                      find_asset))

\* PoolDatum, with the fields the handlers read
PoolDatum(identifier, asset_a, asset_b, protocol_fees) ==
    [shape |-> "pool", identifier |-> identifier,
     assets |-> <<asset_a, asset_b>>, protocol_fees |-> protocol_fees]

\* types::try_parse::<PoolDatum>
try_parse_pool(bytes) ==
    IF bytes.shape = "pool" THEN Some(bytes) ELSE None

\* PoolDatum::raw_price: reserves_a / reserves_b, the ADA reserve being the
\* coin less the protocol fees; for fees the coin covers, the other outcomes
\* of the subtraction are those of native_reserve
raw_price(pool_datum, output) ==
    LET asset_a == pool_datum.assets[1]
        asset_b == pool_datum.assets[2]
        reserves_a == IF is_ada(asset_a)
                      THEN output.coin - pool_datum.protocol_fees
                      ELSE asset_amount(output, asset_a)
        reserves_b == asset_amount(output, asset_b)
    IN  RNorm(<<reserves_a, reserves_b>>)

\* Utxo<()> as delivered by the host
Utxo(ref, slot, datum, output) ==
    [tx_hash |-> ref.transaction_id, index |-> ref.output_index,
     block_slot |-> slot, datum |-> datum, utxo |-> output]

-----------------------------------------------------------------------------
(* lib.rs: Strategy::handle_strategy_order *)

\* utxo.utxo.datum.and_then(|d| try_parse::<OrderDatum>(..))
parsed_order(utxo) ==
    IF IsSome(utxo.datum) THEN try_parse_order(Unwrap(utxo.datum)) ELSE None

\* mutant: any Strategy order is taken, the signer is not compared
is_any_strategy(details, key) == details.kind = "Strategy"

\* the ownership test of the match on datum.details
is_our_order(details, key) ==
    /\ details.kind = "Strategy"
    /\ details.signer = key

\* "parse" | "no_key" | "not_ours" | "owned": where the function stops
order_gate(keys, utxo) ==
    IF ~IsSome(parsed_order(utxo)) THEN "parse"
    ELSE IF ~IsSome(keys) THEN "no_key"
    ELSE IF ~is_our_order(Unwrap(parsed_order(utxo)).details, Unwrap(keys))
         THEN "not_ours"
    ELSE "owned"

\* the ManagedStrategy built from the sighting
seen_strategy(utxo) ==
    [slot   |-> utxo.block_slot,
     output |-> OutputReference(utxo.tx_hash, utxo.index),
     utxo   |-> utxo.utxo,
     order  |-> Unwrap(parsed_order(utxo))]

\* mutant: the list is replaced by the new order alone
push_seen_alone(all_seen, utxo) == <<seen_strategy(utxo)>>

\* all_seen.push(seen.clone())
push_seen(all_seen, utxo) == Append(all_seen, seen_strategy(utxo))

-----------------------------------------------------------------------------
(* lib.rs: Strategy::handle_tx *)

\* mutant: no order is ever taken for spent
is_unspent_whatever_spent(order, spent_inputs) == TRUE

\* mutant: only the transaction hash is compared
is_unspent_hash_only(order, spent_inputs) ==
    ~ \E input \in spent_inputs : order.output.transaction_id = input[1]

\* the closure given to retain: keep the order unless some input names it
is_unspent(order, spent_inputs) ==
    ~ \E input \in spent_inputs :
          /\ order.output.transaction_id = input[1]
          /\ order.output.output_index = input[2]

RECURSIVE retain_unspent(_, _)
retain_unspent(seen_orders, spent_inputs) ==
    IF seen_orders = <<>> THEN <<>>
    ELSE LET rest == retain_unspent(Tail(seen_orders), spent_inputs)
         IN  IF is_unspent(Head(seen_orders), spent_inputs)
             THEN <<Head(seen_orders)>> \o rest
             ELSE rest

\* tx.tx.inputs mapped to (hash, index as u64)
spent_inputs_of(inputs) ==
    {<<r.transaction_id, r.output_index>> : r \in inputs}

OutputsOf(orders) == {orders[i].output : i \in 1..Len(orders)}

-----------------------------------------------------------------------------
(* lib.rs: PoolState and submit_execution *)

\* the PoolState built by handle_pool_state from the sighting
pool_state_of(utxo) ==
    [slot |-> utxo.block_slot,
     output |-> OutputReference(utxo.tx_hash, utxo.index),
     utxo |-> utxo.utxo,
     pool_datum |-> Unwrap(try_parse_pool(Unwrap(utxo.datum)))]

\* utxo.utxo.datum.and_then(|d| try_parse::<PoolDatum>(..)) is Some
is_pool_utxo(utxo) ==
    IsSome(utxo.datum) /\ IsSome(try_parse_pool(Unwrap(utxo.datum)))

\* mutant: the pair is matched in the pool's own orientation only
is_correct_pool_same_orientation(pool_state, order, token_a, token_b) ==
    IF IsSome(order.pool_ident)
    THEN pool_state.pool_datum.identifier = Unwrap(order.pool_ident)
    ELSE /\ token_a = pool_state.pool_datum.assets[1]
         /\ token_b = pool_state.pool_datum.assets[2]

\* PoolState::is_correct_pool
is_correct_pool(pool_state, order, token_a, token_b) ==
    IF IsSome(order.pool_ident)
    THEN pool_state.pool_datum.identifier = Unwrap(order.pool_ident)
    ELSE LET asset_a == pool_state.pool_datum.assets[1]
             asset_b == pool_state.pool_datum.assets[2]
         IN  \/ (token_a = asset_a /\ token_b = asset_b)
             \/ (token_a = asset_b /\ token_b = asset_a)

\* PoolState::price: raw * 10^(token_a_decimals - token_b_decimals)
price(pool_state, token_a_decimals, token_b_decimals) ==
    LET raw == raw_price(pool_state.pool_datum, pool_state.utxo)
    IN  IF token_a_decimals >= token_b_decimals
        THEN RNorm(<<raw[1] * Pow10(token_a_decimals - token_b_decimals),
                     raw[2]>>)
        ELSE RNorm(<<raw[1],
                     raw[2] * Pow10(token_b_decimals - token_a_decimals)>>)

\* How the submissions of one invocation end: the attempts numbered in `at`
\* end as `how` ("sign_error": sign_payload fails; "relay_error": the POST
\* fails), every other attempt is posted.
NoFailures == [at |-> {}, how |-> "sign_error"]
SubmitFailures ==
    {NoFailures} \cup
    {[at |-> a, how |-> h] :
        a \in (SUBSET (1..MaxOrders)) \ {{}},
        h \in {"sign_error", "relay_error"}}
outcome_of(fails, attempt) ==
    IF attempt \in fails.at THEN fails.how ELSE "ok"

\* mutant: only a failed signature is an error, a failed POST is not
is_err_at_signing(outcome) == outcome = "sign_error"

\* the Result of submit_execution is Err: sign_payload(..)? or send()? failed
is_err(outcome) == outcome # "ok"

\* submit_execution: the StrategyExecution for `target` carrying the swap, and
\* how its submission ended
submit_execution(target, offer, min_received, outcome) ==
    [tx_ref |-> target, offer |-> offer, min_received |-> min_received,
     outcome |-> outcome]

-----------------------------------------------------------------------------
(* workers/stop-loss *)

\* mutant: the configured price is the ratio in either direction
trade_direction_as_configured(cfg) ==
    [buy |-> IF cfg.sell_token = cfg.token_a THEN cfg.token_b
             ELSE cfg.token_a,
     ratio |-> cfg.execution_price]

\* StopLossConfig::trade_direction: the asset bought and the price ratio
trade_direction(cfg) ==
    IF cfg.sell_token = cfg.token_a
    THEN [buy |-> cfg.token_b, ratio |-> RInv(cfg.execution_price)]
    ELSE [buy |-> cfg.token_a, ratio |-> cfg.execution_price]

\* trigger_sell: sell the whole balance of sell_token at the configured price
trigger_sell(cfg, order, outcome) ==
    LET give_amount == asset_amount(order.utxo, cfg.sell_token)
        dir == trade_direction(cfg)
        receive_amount == RFloor(RMul(RInt(give_amount), dir.ratio))
    IN  submit_execution(order.output,
            <<cfg.sell_token.policy_id, cfg.sell_token.asset_name, give_amount>>,
            <<dir.buy.policy_id, dir.buy.asset_name, receive_amount>>,
            outcome)

\* mutant: the comparison is the other way round
stop_loss_triggers_above(pool_price, execution_price) ==
    RLt(execution_price, pool_price)

\* mutant: the threshold itself triggers
stop_loss_triggers_at_equal(pool_price, execution_price) ==
    RLe(pool_price, execution_price)

\* if pool_price < config.execution_price
stop_loss_triggers(pool_price, execution_price) ==
    RLt(pool_price, execution_price)

\* on_new_pool_state from the k-th strategy on; `sent` are the submissions
\* made so far. A failed submission returns the error at once.
RECURSIVE stop_loss_from(_, _, _, _, _, _)
stop_loss_from(cfg, pool_state, strategies, k, sent, fails) ==
    IF k > Len(strategies) THEN [sent |-> sent, result |-> "ack"]
    ELSE IF ~is_correct_pool(pool_state, strategies[k].order,
                             cfg.token_a, cfg.token_b)
    THEN stop_loss_from(cfg, pool_state, strategies, k + 1, sent, fails)
    ELSE IF stop_loss_triggers(
                price(pool_state, cfg.token_a_decimals, cfg.token_b_decimals),
                cfg.execution_price)
    THEN LET outcome == outcome_of(fails, Len(sent) + 1)
             made == Append(sent, trigger_sell(cfg, strategies[k], outcome))
         IN  IF is_err(outcome)
             THEN [sent |-> made, result |-> "err"]
             ELSE stop_loss_from(cfg, pool_state, strategies, k + 1, made, fails)
    ELSE stop_loss_from(cfg, pool_state, strategies, k + 1, sent, fails)

stop_loss_on_new_pool_state(cfg, pool_state, strategies, fails) ==
    stop_loss_from(cfg, pool_state, strategies, 1, <<>>, fails)

-----------------------------------------------------------------------------
(* The events the host delivers to the library *)

\* the datums an output sighting may carry
LedgerDatums ==
    {None, Some(OtherDatum), Some(OrderDatum(None, OrderSwap))}
    \cup {Some(OrderDatum(None, OrderStrategy(k))) : k \in Keys}

LedgerUtxos == {Utxo(r, 0, d, TxOutput(0, <<>>)) : r \in Refs, d \in LedgerDatums}

TxInputs == {ins \in SUBSET Refs : Cardinality(ins) \in 1..MaxInputs}

Procs == {1, 2}
Idle == [pc |-> "idle"]

\* history only: the sighting is an order whose authorization is a signature
\* by the key registered for this worker
SightingIsOwned(utxo) ==
    /\ IsSome(public_keys)
    /\ IsSome(utxo.datum)
    /\ Unwrap(utxo.datum).shape = "order"
    /\ Unwrap(utxo.datum).details = OrderStrategy(Unwrap(public_keys))

-----------------------------------------------------------------------------
(* Sequential invocations: each handler runs to completion *)

LedgerInit ==
    /\ managed_orders = <<>>
    /\ inflight = [p \in Procs |-> Idle]
    /\ last = [op |-> "init"]
    /\ live = {}
    /\ overlapped = FALSE
    /\ events = 0
    /\ peak_price = <<>>
    /\ grid_state = <<>>
    /\ track = <<>>

\* a worker that registers no callback
NoConfig == [worker |-> "library"]

Init ==
    /\ public_keys \in {None} \cup {Some(k) : k \in Keys}
    /\ config = NoConfig
    /\ LedgerInit

\* Strategy::handle_utxo for an output whose datum is no pool datum:
\* handle_pool_state acknowledges, handle_strategy_order decides.
\* get_ok / set_ok: whether kv::get / kv::set succeed; `notified`: the
\* function reached the new-strategy callback site (lines 323-327).
HandleUtxo(utxo, get_ok, set_ok) ==
    LET gate == order_gate(public_keys, utxo)
        ref  == OutputReference(utxo.tx_hash, utxo.index)
        done == gate = "owned" /\ get_ok /\ set_ok
        res  == IF gate = "no_key" \/ (gate = "owned" /\ ~(get_ok /\ set_ok))
                THEN "err" ELSE "ack"
    IN  /\ gate = "owned" => Len(managed_orders) < MaxOrders
        /\ managed_orders' = IF done THEN push_seen(managed_orders, utxo)
                             ELSE managed_orders
        /\ last' = [op |-> "utxo", utxo |-> utxo, result |-> res,
                    notified |-> done]
        /\ live' = IF res = "ack" /\ SightingIsOwned(utxo)
                   THEN live \cup {ref} ELSE live
        /\ UNCHANGED <<worker_state, public_keys, config, inflight, overlapped, events>>

\* Strategy::handle_tx (no each_tx callback is registered by the workers)
HandleTx(inputs, get_ok, set_ok) ==
    LET kept == retain_unspent(managed_orders, spent_inputs_of(inputs))
        done == get_ok /\ set_ok
    IN  /\ managed_orders' = IF done THEN kept ELSE managed_orders
        /\ last' = [op |-> "tx", inputs |-> inputs,
                    removed |-> IF done THEN Len(managed_orders) - Len(kept)
                                ELSE 0,
                    result |-> IF done THEN "ack" ELSE "err"]
        /\ live' = IF done THEN live \ inputs ELSE live
        /\ UNCHANGED <<worker_state, public_keys, config, inflight, overlapped, events>>

Next ==
    \/ \E u \in LedgerUtxos, g, s \in BOOLEAN : HandleUtxo(u, g, s)
    \/ \E ins \in TxInputs, g, s \in BOOLEAN : HandleTx(ins, g, s)

Spec == Init /\ [][Next]_vars

-----------------------------------------------------------------------------
(* Overlapping invocations: the host delivers a second event while the    *)
(* first handler is between its kv::get and its kv::set                   *)

OwnedUtxos(key) ==
    {Utxo(r, 0, Some(OrderDatum(None, OrderStrategy(key))), TxOutput(0, <<>>)) :
        r \in Refs}

InitOverlap ==
    /\ public_keys = Some("K1")
    /\ config = NoConfig
    /\ LedgerInit

\* handle_strategy_order up to and including all_seen.push: the list is read
\* and the copy extended; nothing is written yet
BeginRecord(p, utxo) ==
    /\ inflight[p] = Idle
    /\ events < MaxEvents
    /\ events' = events + 1
    /\ order_gate(public_keys, utxo) = "owned"
    /\ Len(managed_orders) < MaxOrders
    /\ inflight' = [inflight EXCEPT ![p] =
            [pc |-> "set", op |-> "record",
             ref |-> OutputReference(utxo.tx_hash, utxo.index),
             copy |-> push_seen(managed_orders, utxo)]]
    /\ UNCHANGED <<worker_state, public_keys, config, managed_orders, last, live, overlapped>>

\* handle_tx up to and including retain
BeginRelease(p, inputs) ==
    /\ inflight[p] = Idle
    /\ events < MaxEvents
    /\ events' = events + 1
    /\ inflight' = [inflight EXCEPT ![p] =
            [pc |-> "set", op |-> "release", inputs |-> inputs,
             copy |-> retain_unspent(managed_orders, spent_inputs_of(inputs))]]
    /\ UNCHANGED <<worker_state, public_keys, config, managed_orders, last, live, overlapped>>

\* kv::set(KV_MANAGED_ORDERS, copy) of either handler, then its return
EndSet(p, set_ok) ==
    LET inv == inflight[p]
    IN  /\ inv.pc = "set"
        /\ managed_orders' = IF set_ok THEN inv.copy ELSE managed_orders
        /\ live' = IF ~set_ok THEN live
                   ELSE IF inv.op = "record" THEN live \cup {inv.ref}
                   ELSE live \ inv.inputs
        /\ overlapped' = (overlapped \/
                (set_ok /\ \E q \in Procs \ {p} : inflight[q].pc = "set"))
        /\ inflight' = [inflight EXCEPT ![p] = Idle]
        /\ UNCHANGED <<worker_state, public_keys, config, last, events>>

NextOverlap ==
    \/ \E p \in Procs, u \in OwnedUtxos("K1") : BeginRecord(p, u)
    \/ \E p \in Procs, ins \in TxInputs : BeginRelease(p, ins)
    \/ \E p \in Procs, s \in BOOLEAN : EndSet(p, s)

SpecOverlap == InitOverlap /\ [][NextOverlap]_vars

-----------------------------------------------------------------------------
(* Claims on the custody ledger *)

Count(orders, e) == Cardinality({i \in DOMAIN orders : orders[i] = e})
RefOfUtxo(utxo) == OutputReference(utxo.tx_hash, utxo.index)

\* C1: the custody ledger never holds two entries with the same
\* OutputReference, also when the same owned output is sighted twice.
\* (The statement of the claim; handle_strategy_order appends without
\* looking for the reference, so a repeated sighting violates it.)
C1_NoDuplicateOutputs ==
    \A i, j \in DOMAIN managed_orders :
        i # j => managed_orders[i].output # managed_orders[j].output

\* C2: processing a transaction removes exactly the entries whose
\* (transaction_id, output_index) is among its inputs and keeps every other
\* entry, in the order they had.
C2_RemovesExactlySpent ==
    [][(last'.op = "tx" /\ last'.result = "ack") =>
          managed_orders' =
              SelectSeq(managed_orders,
                        LAMBDA e : e.output \notin last'.inputs)]_vars

\* C2 witness: a transaction removed an entry while an entry with the same
\* transaction id (other index) and an entry with the same index (other
\* transaction id) as one of its inputs stayed.
C2_Witness ==
    /\ last.op = "tx" /\ last.result = "ack" /\ last.removed >= 1
    /\ \E r \in last.inputs :
          /\ \E i \in DOMAIN managed_orders :
                /\ managed_orders[i].output.transaction_id = r.transaction_id
                /\ managed_orders[i].output.output_index # r.output_index
          /\ \E i \in DOMAIN managed_orders :
                /\ managed_orders[i].output.transaction_id # r.transaction_id
                /\ managed_orders[i].output.output_index = r.output_index

\* C3: every ledger entry is a Strategy order signed by the worker's key, and
\* an entry only ever appears through the sighting of an output that carries
\* such an order; Swap orders and orders of another signer never get in.
C3_EntriesOwned ==
    \A i \in DOMAIN managed_orders :
        /\ IsSome(public_keys)
        /\ managed_orders[i].order.details.kind = "Strategy"
        /\ managed_orders[i].order.details.signer = Unwrap(public_keys)

C3_AddedByOwnedSighting ==
    \A i \in DOMAIN managed_orders' :
        Count(managed_orders', managed_orders'[i])
            > Count(managed_orders, managed_orders'[i])
        => /\ last'.op = "utxo"
           /\ SightingIsOwned(last'.utxo)
           /\ managed_orders'[i].output = RefOfUtxo(last'.utxo)
           /\ managed_orders'[i].order = Unwrap(last'.utxo.datum)

C3_OnlyOwnedSightings == []C3_EntriesOwned /\ [][C3_AddedByOwnedSighting]_vars

\* C3 witness: the ledger holds an entry, and the sighting just processed
\* carried a Swap order or a Strategy order of another signer and was
\* acknowledged without being added.
C3_Witness ==
    /\ Len(managed_orders) >= 1
    /\ last.op = "utxo" /\ last.result = "ack"
    /\ IsSome(parsed_order(last.utxo))
    /\ ~SightingIsOwned(last.utxo)
    /\ RefOfUtxo(last.utxo) \notin OutputsOf(managed_orders)

\* C4: the ledger is read, changed and written back in separate steps by both
\* the record path and the release path, so with two invocations a lost
\* update is reachable (C4_Witness); and a recorded order is missing, or a
\* released order is back, only after a write landed on top of another
\* invocation's earlier read.
Vanished == \E r \in live : r \notin OutputsOf(managed_orders)
Reappeared == \E r \in OutputsOf(managed_orders) : r \notin live

C4_LostUpdateOnlyByOverlap == (Vanished \/ Reappeared) => overlapped

\* C4 witness: both kinds of lost update at once, with the record path and the
\* release path having each written a stale copy.
C4_Witness ==
    /\ Vanished /\ Reappeared
    /\ \A p \in Procs : inflight[p] = Idle

-----------------------------------------------------------------------------
(* The stop-loss worker: the library with on_new_pool_state registered *)

\* ADA has 6 decimals, the token 5: the price is ten times the raw price
StopLossConfigs ==
    {[worker |-> "stop-loss", token_a |-> ADA, token_a_decimals |-> 6,
      token_b |-> TokenX, token_b_decimals |-> 5, sell_token |-> s,
      execution_price |-> <<2, 1>>] : s \in {ADA, TokenX}}

OwnedOrder(pool_ident) == Some(OrderDatum(pool_ident, OrderStrategy("K1")))

\* the order outputs on the chain: one bound to the pair, one bound to pool
\* P1 by identifier, one bound to another pool
StopLossOrderUtxos ==
    {Utxo(OutputReference("T1", 0), 1, OwnedOrder(None),
          TxOutput(50, Holding(TokenX, 7))),
     Utxo(OutputReference("T1", 1), 1, OwnedOrder(Some("P2")),
          TxOutput(40, Holding(TokenX, 3))),
     Utxo(OutputReference("T2", 0), 2, OwnedOrder(Some("P1")),
          TxOutput(30, <<>>))}

\* a pool output: the pool's datum and its reserves
PoolUtxo(ref, slot, identifier, token, fees, coin, amount) ==
    Utxo(ref, slot, Some(PoolDatum(identifier, ADA, token, fees)),
         TxOutput(coin, Holding(token, amount)))

\* pool P1 (ADA / X) at prices 1.99, 2.0 (two sizes), 2.01; pool P2 (ADA / Y)
\* at price 1.0
StopLossPoolUtxos ==
    {PoolUtxo(OutputReference("T3", 0), 5, "P1", TokenX, 2, 201, 1000),
     PoolUtxo(OutputReference("T3", 0), 5, "P1", TokenX, 2, 202, 1000),
     PoolUtxo(OutputReference("T3", 0), 5, "P1", TokenX, 2, 4, 10),
     PoolUtxo(OutputReference("T3", 0), 5, "P1", TokenX, 2, 203, 1000),
     PoolUtxo(OutputReference("T3", 1), 5, "P2", TokenY, 0, 10, 100)}

InitStopLoss ==
    /\ public_keys = Some("K1")
    /\ config \in StopLossConfigs
    /\ LedgerInit

\* Strategy::handle_utxo for a pool output, stop-loss worker: handle_pool_state
\* reads the custody list and runs on_new_pool_state; handle_strategy_order then
\* finds no order datum.
StopLossPoolState(utxo, get_ok, fails) ==
    LET ran == stop_loss_on_new_pool_state(config, pool_state_of(utxo),
                                           managed_orders, fails)
    IN  /\ is_pool_utxo(utxo)
        /\ last' = [op |-> "pool", pool_state |-> pool_state_of(utxo),
                    read |-> get_ok,
                    sent |-> IF get_ok THEN ran.sent ELSE <<>>,
                    result |-> IF get_ok THEN ran.result ELSE "err"]
        /\ UNCHANGED <<worker_state, public_keys, config, managed_orders, inflight, live,
                       overlapped, events>>

NextStopLoss ==
    \/ \E u \in StopLossOrderUtxos : HandleUtxo(u, TRUE, TRUE)
    \/ \E ins \in TxInputs : HandleTx(ins, TRUE, TRUE)
    \/ \E u \in StopLossPoolUtxos :
          \/ \E f \in SubmitFailures : StopLossPoolState(u, TRUE, f)
          \/ StopLossPoolState(u, FALSE, NoFailures)

SpecStopLoss == InitStopLoss /\ [][NextStopLoss]_vars

-----------------------------------------------------------------------------
(* Claims on the stop-loss worker *)

\* the ledger entries the matcher accepts for the snapshot, in list order
RelevantOutputs(pool_state, token_a, token_b) ==
    LET keep(e) == is_correct_pool(pool_state, e.order, token_a, token_b)
        kept == SelectSeq(managed_orders, keep)
    IN  [i \in DOMAIN kept |-> kept[i].output]

Targets(sent) == [i \in DOMAIN sent |-> sent[i].tx_ref]
Posted(sent) == SelectSeq(sent, LAMBDA x : x.outcome = "ok")
SnapshotPrice ==
    price(last.pool_state, config.token_a_decimals, config.token_b_decimals)

\* C5 as stated: at the execution price nothing is emitted; strictly below
\* it every relevant live order gets exactly one instruction, so as many
\* instructions are emitted as there are relevant live orders.
C5_OnePerRelevantOrder ==
    last.op = "pool" =>
        /\ REq(SnapshotPrice, config.execution_price)
              => Posted(last.sent) = <<>>
        /\ RLt(SnapshotPrice, config.execution_price)
              => Targets(Posted(last.sent)) =
                    RelevantOutputs(last.pool_state,
                                    config.token_a, config.token_b)

\* C5 amended: at (or above) the execution price nothing is submitted;
\* strictly below it one instruction per relevant ledger entry is submitted in
\* list order until a submission fails, which ends the invocation with an
\* error; when the list was read and no submission fails there are as many
\* instructions as relevant entries.
C5_OnePerRelevantUntilFailure ==
    last.op = "pool" =>
        LET want == RelevantOutputs(last.pool_state,
                                    config.token_a, config.token_b)
            n == Len(last.sent)
        IN  /\ ~RLt(SnapshotPrice, config.execution_price)
                  => last.sent = <<>> /\ (last.read => last.result = "ack")
            /\ (RLt(SnapshotPrice, config.execution_price) /\ last.read)
                  => /\ n <= Len(want)
                     /\ Targets(last.sent) = SubSeq(want, 1, n)
                     /\ \A i \in 1..(n - 1) : last.sent[i].outcome = "ok"
                     /\ last.result = "ack"
                           => n = Len(want) /\ Posted(last.sent) = last.sent
                     /\ last.result = "err"
                           => n >= 1 /\ last.sent[n].outcome # "ok"
            /\ ~last.read => last.sent = <<>> /\ last.result = "err"

\* C5 witness: a snapshot below the execution price, with two relevant and
\* one unrelated entry in the ledger, ended with both instructions posted.
C5_Witness ==
    /\ last.op = "pool" /\ last.result = "ack"
    /\ RLt(SnapshotPrice, config.execution_price)
    /\ Len(managed_orders) = 3
    /\ Len(last.sent) = 2
    /\ Len(RelevantOutputs(last.pool_state, config.token_a, config.token_b)) = 2

\* the threshold case of C5 is reached: a snapshot exactly at the execution
\* price with a relevant entry in the ledger
C5_AtThreshold ==
    /\ last.op = "pool" /\ last.read
    /\ REq(SnapshotPrice, config.execution_price)
    /\ Len(RelevantOutputs(last.pool_state, config.token_a, config.token_b)) >= 1

-----------------------------------------------------------------------------
(* workers/trailing-stop-loss *)

\* the key-value store seen through one key family: get is None for a key
\* never written, set replaces the whole value
kv_get(store, key) == IF key \in DOMAIN store THEN Some(store[key]) ELSE None
kv_set(store, key, value) ==
    [k \in DOMAIN store \cup {key} |-> IF k = key THEN value ELSE store[k]]

\* peak_price_key: "peak_price:<hex tx>#<index>", one key per output reference
peak_price_key(output) == output

\* mutant: the raw price whatever side the position token is on
get_position_price_raw(pool_state, position_token) ==
    raw_price(pool_state.pool_datum, pool_state.utxo)

\* get_position_price: exit_token per position_token
get_position_price(pool_state, position_token) ==
    LET raw == raw_price(pool_state.pool_datum, pool_state.utxo)
        pool_asset_a == pool_state.pool_datum.assets[1]
        position_is_asset_a ==
            /\ position_token.policy_id = pool_asset_a.policy_id
            /\ position_token.asset_name = pool_asset_a.asset_name
    IN  IF position_is_asset_a
        THEN IF raw[1] = 0 THEN <<0, 1>> ELSE RNorm(RInv(raw))
        ELSE raw

\* mutant: an order without any position balance counts as active
is_active_any_balance(cfg, pool_state, s) ==
    is_correct_pool(pool_state, s.order, cfg.position_token, cfg.exit_token)

\* the two filters of on_new_pool_state
is_active(cfg, pool_state, s) ==
    /\ is_correct_pool(pool_state, s.order, cfg.position_token, cfg.exit_token)
    /\ asset_amount(s.utxo, cfg.position_token) > 0

\* What goes wrong in one invocation: nothing, or for the order at position
\* `at` the kv::get or the kv::set of its stored value fails, or its
\* submission fails at signing or at the relay.
NoFault == [at |-> 0, kind |-> "none"]
Faults ==
    {NoFault} \cup
    {[at |-> k, kind |-> h] :
        k \in 1..MaxOrders, h \in {"get", "set", "sign_error", "relay_error"}}

\* mutant: the minimum is the floored value, 0 included
trigger_exit_no_minimum(cfg, strategy, trigger_price, outcome) ==
    LET position_amount == asset_amount(strategy.utxo, cfg.position_token)
        expected_output == RMul(RInt(position_amount), trigger_price)
    IN  submit_execution(strategy.output,
            <<cfg.position_token.policy_id, cfg.position_token.asset_name,
              position_amount>>,
            <<cfg.exit_token.policy_id, cfg.exit_token.asset_name,
              RFloor(RMul(expected_output,
                          ROneMinus(cfg.slippage_tolerance)))>>,
            outcome)

\* trigger_exit: sell the whole position for at least the trigger value less
\* the slippage tolerance, and at least 1
trigger_exit(cfg, strategy, trigger_price, outcome) ==
    LET position_amount == asset_amount(strategy.utxo, cfg.position_token)
        expected_output == RMul(RInt(position_amount), trigger_price)
        floored == RFloor(RMul(expected_output,
                               ROneMinus(cfg.slippage_tolerance)))
        min_received == IF floored < 1 THEN 1 ELSE floored
    IN  submit_execution(strategy.output,
            <<cfg.position_token.policy_id, cfg.position_token.asset_name,
              position_amount>>,
            <<cfg.exit_token.policy_id, cfg.exit_token.asset_name,
              min_received>>,
            outcome)

\* config.entry_price.unwrap_or(pool_price)
initial_peak(cfg, pool_price) ==
    IF IsSome(cfg.entry_price) THEN Unwrap(cfg.entry_price) ELSE pool_price

\* if pool_price < trigger_price
exit_triggers(pool_price, trigger_price) == RLt(pool_price, trigger_price)

\* the loop of on_new_pool_state from the k-th active strategy on; `peaks` is
\* the store as the earlier iterations left it, `evals` what they computed
RECURSIVE trailing_from(_, _, _, _, _, _, _)
trailing_from(cfg, pool_price, active, k, peaks, evals, fault) ==
    IF k > Len(active) THEN [peaks |-> peaks, evals |-> evals]
    ELSE
    LET strategy == active[k]
        peak_key == peak_price_key(strategy.output)
        here(kind) == fault.at = k /\ fault.kind = kind
        stored_peak == IF here("get") THEN None ELSE kv_get(peaks, peak_key)
        rising == IsSome(stored_peak) /\ RLt(Unwrap(stored_peak), pool_price)
        peak == IF ~IsSome(stored_peak) THEN initial_peak(cfg, pool_price)
                ELSE IF rising THEN pool_price
                ELSE Unwrap(stored_peak)
        written == (~IsSome(stored_peak) \/ rising) /\ ~here("set")
        trigger_price == RMul(peak, ROneMinus(cfg.trail_percent))
        outcome == IF here("sign_error") \/ here("relay_error")
                   THEN fault.kind ELSE "ok"
        exit == IF exit_triggers(pool_price, trigger_price)
                THEN Some(trigger_exit(cfg, strategy, trigger_price, outcome))
                ELSE None
        eval == [output |-> strategy.output, stored |-> stored_peak,
                 peak |-> peak, trigger |-> trigger_price, exit |-> exit]
    IN  trailing_from(cfg, pool_price, active, k + 1,
                      IF written THEN kv_set(peaks, peak_key, peak) ELSE peaks,
                      Append(evals, eval), fault)

\* mutant: the loop ends after the first strategy with a position
active_of_first(cfg, pool_state, strategies) ==
    LET first == CHOOSE k \in 1..(Len(strategies) + 1) :
                     /\ k <= Len(strategies) => is_active(cfg, pool_state, strategies[k])
                     /\ \A j \in 1..(k - 1) : ~is_active(cfg, pool_state, strategies[j])
    IN  IF first > Len(strategies) THEN <<>> ELSE <<strategies[first]>>

\* the strategies with a position in this pool
active_of(cfg, pool_state, strategies) ==
    SelectSeq(strategies, LAMBDA s : is_active(cfg, pool_state, s))

trailing_on_new_pool_state(cfg, pool_state, strategies, peaks, fault) ==
    trailing_from(cfg, get_position_price(pool_state, cfg.position_token),
                  active_of(cfg, pool_state, strategies), 1, peaks, <<>>,
                  fault)

-----------------------------------------------------------------------------
(* The trailing-stop-loss worker *)

\* trail 15%, slippage 3%, position X exits to ADA; with and without a
\* configured entry price
TrailingConfigs ==
    {[worker |-> "trailing-stop-loss", position_token |-> TokenX,
      exit_token |-> ADA, trail_percent |-> <<3, 20>>,
      slippage_tolerance |-> <<3, 100>>, entry_price |-> e] :
        e \in {None, Some(<<100, 1>>)}}

\* the order outputs on the chain: one holding the position token and bound
\* to the pair, one bound to another pool, one holding no position token
TrailingOrderUtxos ==
    {Utxo(OutputReference("T1", 0), 1, OwnedOrder(None),
          TxOutput(5, Holding(TokenX, 10))),
     Utxo(OutputReference("T1", 1), 1, OwnedOrder(Some("P2")),
          TxOutput(5, Holding(TokenX, 4))),
     Utxo(OutputReference("T2", 0), 2, OwnedOrder(None),
          TxOutput(9, <<>>))}

\* pool P1 (ADA / X) at 100, 120 and 150 ADA per X
TrailingPoolUtxos ==
    {PoolUtxo(OutputReference("T3", 0), 5, "P1", TokenX, 2, 2 + q, 1) :
        q \in {100, 120, 150}}

\* the transactions spending one order output each
TrailingTxInputs ==
    {{OutputReference(u.tx_hash, u.index)} : u \in TrailingOrderUtxos}

InitTrailing ==
    /\ public_keys = Some("K1")
    /\ config \in TrailingConfigs
    /\ LedgerInit

\* history: for every order evaluated, the highest of the configured entry
\* price and the prices seen for the order
RECURSIVE tracked(_, _, _, _)
tracked(trk, cfg, pool_price, evals) ==
    IF evals = <<>> THEN trk
    ELSE LET ref == Head(evals).output
             before == IF ref \in DOMAIN trk THEN trk[ref].high
                       ELSE IF IsSome(cfg.entry_price)
                            THEN Unwrap(cfg.entry_price)
                            ELSE pool_price
             now == [high |-> RMax(before, pool_price)]
         IN  tracked(kv_set(trk, ref, now), cfg, pool_price, Tail(evals))

\* Strategy::handle_utxo for a pool output, trailing-stop-loss worker:
\* handle_pool_state reads the custody list and runs on_new_pool_state, which
\* logs every failure and acknowledges
TrailingPoolState(utxo, get_ok, fault) ==
    /\ is_pool_utxo(utxo)
    /\ fault.at <= Len(active_of(config, pool_state_of(utxo), managed_orders))
    /\ \E pool_state \in {pool_state_of(utxo)} :
       \E ran \in {trailing_on_new_pool_state(config, pool_state,
                        managed_orders, peak_price, fault)} :
          /\ peak_price' = IF get_ok THEN ran.peaks ELSE peak_price
          /\ track' = IF get_ok
                      THEN tracked(track, config,
                               get_position_price(pool_state,
                                                  config.position_token),
                               ran.evals)
                      ELSE track
          /\ last' = [op |-> "pool", pool_state |-> pool_state,
                      read |-> get_ok,
                      evals |-> IF get_ok THEN ran.evals ELSE <<>>,
                      result |-> IF get_ok THEN "ack" ELSE "err"]
          /\ UNCHANGED <<grid_state, public_keys, config, managed_orders,
                         inflight, live, overlapped, events>>

\* the store and the relay may fail
NextTrailing ==
    \/ \E u \in TrailingOrderUtxos : HandleUtxo(u, TRUE, TRUE)
    \/ \E ins \in TrailingTxInputs : HandleTx(ins, TRUE, TRUE)
    \/ \E u \in TrailingPoolUtxos :
          \/ \E f \in Faults : TrailingPoolState(u, TRUE, f)
          \/ TrailingPoolState(u, FALSE, NoFault)

SpecTrailing == InitTrailing /\ [][NextTrailing]_vars

\* the store and the relay never fail
NextTrailingSteady ==
    \/ \E u \in TrailingOrderUtxos : HandleUtxo(u, TRUE, TRUE)
    \/ \E ins \in TrailingTxInputs : HandleTx(ins, TRUE, TRUE)
    \/ \E u \in TrailingPoolUtxos : TrailingPoolState(u, TRUE, NoFault)

SpecTrailingSteady == InitTrailing /\ [][NextTrailingSteady]_vars

\* pool P1 (ADA / X) at 100 and 80 ADA per X, and at 1/10 and 1/20
TrailingExitPoolUtxos ==
    {PoolUtxo(OutputReference("T3", 0), 5, "P1", TokenX, 2, 2 + q[1], q[2]) :
        q \in {<<100, 1>>, <<80, 1>>, <<1, 10>>, <<1, 20>>}}

\* the store and the relay never fail; the price falls to small values
NextTrailingExit ==
    \/ \E u \in TrailingOrderUtxos : HandleUtxo(u, TRUE, TRUE)
    \/ \E ins \in TrailingTxInputs : HandleTx(ins, TRUE, TRUE)
    \/ \E u \in TrailingExitPoolUtxos : TrailingPoolState(u, TRUE, NoFault)

SpecTrailingExit == InitTrailing /\ [][NextTrailingExit]_vars

-----------------------------------------------------------------------------
(* Claims on the trailing-stop-loss worker *)

TrailingPrice == get_position_price(last.pool_state, config.position_token)

\* no ledger entry holds any of the position token
NoPosition ==
    \A i \in DOMAIN managed_orders :
        asset_amount(managed_orders[i].utxo, config.position_token) = 0

\* C6: for every order the persisted peak never decreases from one step to the
\* next (it is only overwritten by a larger price), and the peak used to
\* compute the trigger is never lower than the peak used for the same order
\* by the snapshot before.
C6_PeakNeverLowered ==
    [][/\ \A r \in DOMAIN peak_price :
              r \in DOMAIN peak_price' /\ RLe(peak_price[r], peak_price'[r])
       /\ (last.op = "pool" /\ last'.op = "pool") =>
              \A i \in DOMAIN last.evals, j \in DOMAIN last'.evals :
                  last.evals[i].output = last'.evals[j].output
                      => RLe(last.evals[i].peak, last'.evals[j].peak)]_vars

\* C7: an exit instruction is submitted for an order exactly when the pool
\* price is strictly below peak * (1 - trail_percent), the peak being the
\* highest of the initial peak and every price seen so far for the order.
C7_ExitBelowTrailedPeak ==
    (last.op = "pool" /\ last.read) =>
        \A i \in DOMAIN last.evals :
            LET ev == last.evals[i]
                high == track[ev.output].high
            IN  IsSome(ev.exit) <=>
                    RLt(TrailingPrice,
                        RMul(high, ROneMinus(config.trail_percent)))

FirstEvals(evals) ==
    {i \in DOMAIN evals :
        \A j \in 1..(i - 1) : evals[j].output # evals[i].output}

-----------------------------------------------------------------------------
(* workers/symmetrical-grid *)

\* GridState::new
GridState_new(strategy, pool_price, cfg) ==
    [center_price |-> pool_price,
     line_offset |-> 0,
     init_strat |-> asset_amount(strategy.utxo, cfg.strategy_token),
     init_base |-> asset_amount(strategy.utxo, cfg.base_token)]

\* grid_state_key: "grid_state:<auth>", one key per authorization
grid_state_key(auth) == auth

\* compute_grid_prices: the lines below the center, lowest first, then the
\* lines above it
grid_lines(center_price, levels_per_side, powers) ==
    [n \in 1..(2 * levels_per_side) |->
        IF n <= levels_per_side
        THEN RMul(center_price, RInv(powers[levels_per_side + 1 - n]))
        ELSE RMul(center_price, powers[n - levels_per_side])]
compute_grid_prices(center_price, spacing_percent, levels_per_side) ==
    grid_lines(center_price, levels_per_side,
               RPowers(RAdd(<<1, 1>>, spacing_percent), levels_per_side))

\* mutant: a line at the price counts as below it
count_at_or_below(grid_prices, pool_price) ==
    Cardinality({n \in DOMAIN grid_prices : RLe(grid_prices[n], pool_price)})

\* grid_prices.iter().take_while(|p| **p < price).count()
RECURSIVE count_below(_, _)
count_below(grid_prices, pool_price) ==
    IF grid_prices = <<>> \/ ~RLt(Head(grid_prices), pool_price) THEN 0
    ELSE 1 + count_below(Tail(grid_prices), pool_price)

Reversed(xs) == [i \in DOMAIN xs |-> xs[Len(xs) + 1 - i]]

\* compute_crossed_prices: the new offset and the lines between the previous
\* offset and it, in the order the price crossed them
compute_crossed_prices(grid_prices, previous_offset, pool_price) ==
    LET new_offset == count_below(grid_prices, pool_price)
    IN  [new_offset |-> new_offset,
         prices |->
            IF new_offset > previous_offset
            THEN SubSeq(grid_prices, previous_offset + 1, new_offset)
            ELSE IF new_offset < previous_offset
            THEN Reversed(SubSeq(grid_prices, new_offset + 1, previous_offset))
            ELSE <<>>]

\* trigger_sell_strategy: offer the strategy token for the base token
trigger_sell_strategy(cfg, strategy, sell_amt, buy_amt, outcome) ==
    submit_execution(strategy.output,
        <<cfg.strategy_token.policy_id, cfg.strategy_token.asset_name, sell_amt>>,
        <<cfg.base_token.policy_id, cfg.base_token.asset_name, buy_amt>>,
        outcome)

\* trigger_buy_strategy: offer the base token for the strategy token
trigger_buy_strategy(cfg, strategy, sell_amt, buy_amt, outcome) ==
    submit_execution(strategy.output,
        <<cfg.base_token.policy_id, cfg.base_token.asset_name, sell_amt>>,
        <<cfg.strategy_token.policy_id, cfg.strategy_token.asset_name, buy_amt>>,
        outcome)

\* mutant: every line crossed is filled, whatever the balance
grids_to_fill_all_crossed(crossed_len, max_fillable) == crossed_len

\* crossed_prices.len().min(max_fillable as usize)
grids_to_fill(crossed_len, max_fillable) ==
    IF crossed_len < max_fillable THEN crossed_len ELSE max_fillable

\* the fill for the lines crossed (on_new_pool_state, lines 192-254): how
\* many lines are filled and the instruction submitted, if any
grid_fill(cfg, s, grid_state_, up, crossed, sell_per_grid, outcome) ==
    LET balance == asset_amount(s.utxo, IF up THEN cfg.strategy_token
                                        ELSE cfg.base_token)
        max_fillable == balance \div sell_per_grid
        to_fill == grids_to_fill(Len(crossed), max_fillable)
        prices_to_fill == SubSeq(crossed, 1, to_fill)
        sell_amt == sell_per_grid * to_fill
        buy_amt ==
            RFloor(RSum([i \in DOMAIN prices_to_fill |->
                IF up THEN RMul(RInt(sell_per_grid), prices_to_fill[i])
                ELSE RMul(RInt(sell_per_grid), RInv(prices_to_fill[i]))]))
    IN  IF crossed = <<>> \/ sell_per_grid = 0 \/ max_fillable = 0
        THEN [filled |-> 0, sent |-> None]
        ELSE [filled |-> to_fill,
              sent |-> Some(IF up
                  THEN trigger_sell_strategy(cfg, s, sell_amt, buy_amt, outcome)
                  ELSE trigger_buy_strategy(cfg, s, sell_amt, buy_amt, outcome))]

\* what one iteration computes for a ledger entry that passed the filters:
\* the state used, the lines crossed, the fill
grid_eval(cfg, s, key, found, grid_state_, cross, outcome) ==
    LET up == cross.new_offset > grid_state_.line_offset
        sell_per_grid ==
            (IF up THEN grid_state_.init_strat ELSE grid_state_.init_base)
                \div cfg.levels_per_side
        fill == grid_fill(cfg, s, grid_state_, up, cross.prices,
                          sell_per_grid, outcome)
    IN  [output |-> s.output, key |-> key, found |-> found,
         grid_state |-> grid_state_, new_offset |-> cross.new_offset,
         crossed |-> cross.prices, filled |-> fill.filled,
         sent |-> fill.sent]

\* the state an iteration uses: the stored one, or a new one
grid_state_for(cfg, s, pool_price, stored) ==
    IF IsSome(stored) THEN Unwrap(stored)
    ELSE GridState_new(s, pool_price, cfg)

\* spacing 5%, three lines per side; the strategy token X trades against ADA
GridConfigs ==
    {[worker |-> "symmetrical-grid", strategy_token |-> TokenX,
      base_token |-> ADA, spacing_percent |-> <<1, 20>>,
      levels_per_side |-> 3]}

\* the order outputs on the chain, all authorized by the same signer: one
\* holding 100 of either token, one holding 40 and 2, one holding none
GridOrderUtxos ==
    {Utxo(OutputReference("T1", 0), 1, OwnedOrder(None),
          TxOutput(100, Holding(TokenX, 100))),
     Utxo(OutputReference("T1", 1), 1, OwnedOrder(None),
          TxOutput(2, Holding(TokenX, 40))),
     Utxo(OutputReference("T2", 0), 2, OwnedOrder(None),
          TxOutput(0, <<>>))}

GridTxInputs ==
    {{OutputReference(u.tx_hash, u.index)} : u \in GridOrderUtxos}

\* pool P1 (ADA / X) at 1.0, 1.101 and 1.2 ADA per X
GridPoolUtxos ==
    {PoolUtxo(OutputReference("T3", 0), 5, "P1", TokenX, 2, 2 + q, 1000) :
        q \in {1000, 1101, 1200}}

\* the prices the pools above can show
GridPrices ==
    {raw_price(pool_state_of(u).pool_datum, pool_state_of(u).utxo) :
        u \in GridPoolUtxos}

\* compute_grid_prices for every configuration and center of the worker
\* above, computed once
GridLines ==
    [cfg \in GridConfigs, center \in GridPrices |->
        compute_grid_prices(center, cfg.spacing_percent, cfg.levels_per_side)]

\* the lines of a state: those of its center
grid_prices_of(cfg, center_price) ==
    IF <<cfg, center_price>> \in DOMAIN GridLines
    THEN GridLines[cfg, center_price]
    ELSE compute_grid_prices(center_price, cfg.spacing_percent,
                             cfg.levels_per_side)

\* the lines the price crossed since the offset of the state
grid_cross(cfg, grid_state_, pool_price) ==
    compute_crossed_prices(grid_prices_of(cfg, grid_state_.center_price),
                           grid_state_.line_offset, pool_price)

\* mutant: the offset is raised by the lines filled in either direction
advance_offset_upward(grid_state_, new_offset, filled) ==
    [grid_state_ EXCEPT !.line_offset = @ + filled]

\* mutant: the offset jumps to the newly computed offset
advance_offset_to_new(grid_state_, new_offset, filled) ==
    [grid_state_ EXCEPT !.line_offset = new_offset]

\* grid_state.line_offset += grids_to_fill / -= grids_to_fill
advance_offset(grid_state_, new_offset, filled) ==
    [grid_state_ EXCEPT !.line_offset =
        IF new_offset > @ THEN @ + filled ELSE @ - filled]

\* mutant: the moved state is written before the instruction is submitted
left_on_failure_written(states, key, moved) == kv_set(states, key, moved)

\* the store after a submission or a kv::set that failed: `?` returns before
\* anything is written
left_on_failure(states, key, moved) == states

\* the loop of on_new_pool_state from the k-th ledger entry on; `states` is
\* the store as the earlier iterations left it, `evals` what they computed.
\* A failed kv::get, submission or kv::set returns the error at once; `cause`
\* names the call that failed.
RECURSIVE grid_from(_, _, _, _, _, _, _)
RECURSIVE grid_after(_, _, _, _, _, _, _, _)
grid_after(cfg, pool_state, strategies, k, states, evals, fault, eval) ==
    LET moved == advance_offset(eval.grid_state, eval.new_offset, eval.filled)
        failed == \/ is_err(Unwrap(eval.sent).outcome)
                  \/ (fault.at = k /\ fault.kind = "set")
    IN  IF ~IsSome(eval.sent)
        THEN grid_from(cfg, pool_state, strategies, k + 1, states,
                       Append(evals, eval), fault)
        ELSE IF failed
        THEN [states |-> left_on_failure(states, eval.key, moved),
              evals |-> Append(evals, eval),
              result |-> "err",
              cause |-> IF is_err(Unwrap(eval.sent).outcome) THEN "submit"
                        ELSE "set"]
        ELSE grid_from(cfg, pool_state, strategies, k + 1,
                       kv_set(states, eval.key, moved),
                       Append(evals, eval), fault)

grid_from(cfg, pool_state, strategies, k, states, evals, fault) ==
    IF k > Len(strategies)
    THEN [states |-> states, evals |-> evals, result |-> "ack",
          cause |-> "none"]
    ELSE
    LET s == strategies[k]
        pool_price == raw_price(pool_state.pool_datum, pool_state.utxo)
        key == grid_state_key(s.order.details.signer)
        stored == kv_get(states, key)
        grid_state_ == grid_state_for(cfg, s, pool_price, stored)
        outcome == IF fault.at = k
                      /\ fault.kind \in {"sign_error", "relay_error"}
                   THEN fault.kind ELSE "ok"
    IN  IF \/ ~is_correct_pool(pool_state, s.order,
                               cfg.strategy_token, cfg.base_token)
           \/ s.order.details.kind # "Strategy"
           \/ /\ asset_amount(s.utxo, cfg.strategy_token) = 0
              /\ asset_amount(s.utxo, cfg.base_token) = 0
        THEN grid_from(cfg, pool_state, strategies, k + 1, states, evals,
                       fault)
        ELSE IF fault.at = k /\ fault.kind = "get"
        THEN [states |-> states, evals |-> evals, result |-> "err",
              cause |-> "get"]
        ELSE Only({grid_after(cfg, pool_state, strategies, k, states, evals,
                              fault, eval) :
                eval \in {grid_eval(cfg, s, key, IsSome(stored), gs, cross,
                                    outcome) :
                    gs \in {grid_state_},
                    cross \in {grid_cross(cfg, grid_state_, pool_price)}}})

grid_on_new_pool_state(cfg, pool_state, strategies, states, fault) ==
    grid_from(cfg, pool_state, strategies, 1, states, <<>>, fault)

-----------------------------------------------------------------------------
(* The symmetrical-grid worker *)

InitGrid ==
    /\ public_keys = Some("K1")
    /\ config \in GridConfigs
    /\ LedgerInit

\* history: the offset each grid state was first persisted with
homes(trk, states) ==
    [key \in DOMAIN states |->
        IF key \in DOMAIN trk THEN trk[key]
        ELSE [home |-> states[key].line_offset]]

\* Strategy::handle_utxo for a pool output, symmetrical-grid worker:
\* handle_pool_state reads the custody list and runs on_new_pool_state
GridPoolRan(utxo, get_ok, fault, pool_state, ran) ==
        /\ fault # NoFault => ran.result = "err"
        /\ grid_state' = IF get_ok THEN ran.states ELSE grid_state
        /\ track' = IF get_ok THEN homes(track, ran.states) ELSE track
        /\ last' = [op |-> "pool", pool_state |-> pool_state,
                    read |-> get_ok,
                    evals |-> IF get_ok THEN ran.evals ELSE <<>>,
                    result |-> IF get_ok THEN ran.result ELSE "err",
                    cause |-> IF get_ok THEN ran.cause ELSE "get"]
        /\ UNCHANGED <<peak_price, public_keys, config, managed_orders,
                       inflight, live, overlapped, events>>

GridPoolState(utxo, get_ok, fault) ==
    /\ is_pool_utxo(utxo)
    /\ fault.at <= Len(managed_orders)
    /\ \E ran \in {grid_on_new_pool_state(config, pool_state_of(utxo),
                                          managed_orders, grid_state, fault)} :
          GridPoolRan(utxo, get_ok, fault, pool_state_of(utxo), ran)

NextGrid ==
    \/ \E u \in GridOrderUtxos : HandleUtxo(u, TRUE, TRUE)
    \/ \E ins \in GridTxInputs : HandleTx(ins, TRUE, TRUE)
    \/ \E u \in GridPoolUtxos :
          \/ \E f \in Faults : GridPoolState(u, TRUE, f)
          \/ GridPoolState(u, FALSE, NoFault)

SpecGrid == InitGrid /\ [][NextGrid]_vars

\* the same worker with only the funded orders in custody: every fill, and
\* every line that cannot be filled, comes from one of these two
GridFundedUtxos ==
    {u \in GridOrderUtxos :
        u.utxo.coin + asset_amount(u.utxo, TokenX) > 0}

NextGridFunded ==
    \/ \E u \in GridFundedUtxos : HandleUtxo(u, TRUE, TRUE)
    \/ \E u \in GridFundedUtxos :
          HandleTx({OutputReference(u.tx_hash, u.index)}, TRUE, TRUE)
    \/ \E u \in GridPoolUtxos :
          \/ \E f \in Faults : GridPoolState(u, TRUE, f)
          \/ GridPoolState(u, FALSE, NoFault)

SpecGridFunded == InitGrid /\ [][NextGridFunded]_vars

-----------------------------------------------------------------------------
(* Claims on the symmetrical-grid worker *)

GridPrice(invocation) ==
    raw_price(invocation.pool_state.pool_datum, invocation.pool_state.utxo)

\* the persisted offset under a key, 0 while nothing is persisted
OffsetOf(states, key) ==
    IF key \in DOMAIN states THEN states[key].line_offset ELSE 0

\* the order holds at least the amounts the grid state started with
HoldsInitial(ev, entry) ==
    /\ asset_amount(entry.utxo, config.strategy_token)
          >= ev.grid_state.init_strat
    /\ asset_amount(entry.utxo, config.base_token) >= ev.grid_state.init_base

EntryOf(output) ==
    managed_orders[CHOOSE i \in DOMAIN managed_orders :
                       managed_orders[i].output = output]

\* C9: with spacing 0.05 and 3 lines per side, an order first observed at
\* price 1.0 (the center) and holding enough inventory sees exactly 2 lines
\* crossed at the next snapshot at price 1.101, and the stored offset is
\* advanced by 2; and whenever the price is back at the center and every line
\* crossed is filled, the stored offset is back where it started.
C9_TwoLinesThenBack ==
    [][(last'.op = "pool" /\ last'.result = "ack") =>
         \A j \in FirstEvals(last'.evals) :
            LET ev == last'.evals[j]
            IN  /\ ( /\ last.op = "pool" /\ last.result = "ack"
                     /\ GridPrice(last) = <<1, 1>>
                     /\ GridPrice(last') = <<1101, 1000>>
                     /\ config.spacing_percent = <<1, 20>>
                     /\ config.levels_per_side = 3
                     /\ ev.grid_state.center_price = <<1, 1>>
                     /\ HoldsInitial(ev, EntryOf(ev.output))
                     /\ \E i \in FirstEvals(last.evals) :
                           /\ last.evals[i].output = ev.output
                           /\ ~last.evals[i].found )
                   => /\ Len(ev.crossed) = 2
                      /\ OffsetOf(grid_state', ev.key)
                            = OffsetOf(grid_state, ev.key) + 2
                /\ ( /\ ev.key \in DOMAIN track
                     /\ GridPrice(last') = ev.grid_state.center_price
                     /\ ev.filled = Len(ev.crossed) )
                   => OffsetOf(grid_state', ev.key) = track[ev.key].home]_vars

\* the ledger entries a snapshot evaluates: matching the pool and holding
\* some of either token
GridRelevant(pool_state) ==
    {i \in DOMAIN managed_orders :
        /\ is_correct_pool(pool_state, managed_orders[i].order,
                           config.strategy_token, config.base_token)
        /\ \/ asset_amount(managed_orders[i].utxo, config.strategy_token) > 0
           \/ asset_amount(managed_orders[i].utxo, config.base_token) > 0}

\* C10: after the first pool snapshot processed for an order, a grid state is
\* persisted for it with the snapshot's price as center, offset 0 and the
\* order's balances as initial amounts.
C10_FirstSnapshotPersists ==
    [][(last'.op = "pool" /\ last'.result = "ack") =>
         \A i \in GridRelevant(last'.pool_state) :
            LET entry == managed_orders[i]
                key == entry.order.details.signer
            IN  ( /\ key \notin DOMAIN grid_state
                  /\ \A h \in GridRelevant(last'.pool_state) : i <= h )
                => /\ key \in DOMAIN grid_state'
                   /\ grid_state'[key] =
                        [center_price |-> GridPrice(last'),
                         line_offset |-> 0,
                         init_strat |-> asset_amount(entry.utxo,
                                            config.strategy_token),
                         init_base |-> asset_amount(entry.utxo,
                                            config.base_token)]]_vars

\* the iteration submitted an instruction and the submission was accepted
Emitted(ev) == IsSome(ev.sent) /\ Unwrap(ev.sent).outcome = "ok"

\* C11: a snapshot whose price equals the center price of an order's grid,
\* processed when no line of that grid has been filled (the order is observed
\* for the first time, or its offset is where it was first persisted), emits
\* no instruction for the order.
C11_CenterNeverFills ==
    (last.op = "pool" /\ last.read) =>
        \A i \in DOMAIN last.evals :
            LET ev == last.evals[i]
            IN  ( /\ GridPrice(last) = ev.grid_state.center_price
                  /\ \/ ~ev.found
                     \/ /\ ev.key \in DOMAIN track
                        /\ ev.grid_state.line_offset = track[ev.key].home )
                => ~Emitted(ev)

\* the direction of the crossing an iteration computed
GoesUp(ev) == ev.new_offset > ev.grid_state.line_offset

\* the per-line amount and the number of lines the order's balance can fill
PerLine(ev) ==
    (IF GoesUp(ev) THEN ev.grid_state.init_strat ELSE ev.grid_state.init_base)
        \div config.levels_per_side
OfferedToken(ev) ==
    IF GoesUp(ev) THEN config.strategy_token ELSE config.base_token
MaxFillable(ev) ==
    asset_amount(EntryOf(ev.output).utxo, OfferedToken(ev)) \div PerLine(ev)
LinesFilled(ev) ==
    IF Len(ev.crossed) < MaxFillable(ev) THEN Len(ev.crossed)
    ELSE MaxFillable(ev)

\* the offset the store holds under the iteration's key once the iteration is
\* over: what the next iteration with that key reads, or what the store holds
\* at the end of the invocation
OffsetAfter(evals, i, states) ==
    LET later == {j \in DOMAIN evals : j > i /\ evals[j].key = evals[i].key}
    IN  IF later = {} THEN OffsetOf(states, evals[i].key)
        ELSE evals[CHOOSE j \in later : \A h \in later : j <= h]
                 .grid_state.line_offset

\* the offset an iteration is to leave in the store after a fill
OffsetMoved(ev) ==
    IF GoesUp(ev) THEN ev.grid_state.line_offset + LinesFilled(ev)
    ELSE ev.grid_state.line_offset - LinesFilled(ev)

\* the write that follows the iteration's submission succeeded
Stored(invocation, i) ==
    ~(i = Len(invocation.evals) /\ invocation.cause = "set")

\* C12 as stated: whenever an instruction is emitted, the persisted offset
\* moves from the offset read toward the new offset by exactly
\* min(lines crossed, max fillable): added when going up, subtracted when
\* going down.
C12_OffsetMovesByFilled ==
    (last.op = "pool" /\ last.read) =>
        \A i \in DOMAIN last.evals :
            Emitted(last.evals[i]) =>
                OffsetAfter(last.evals, i, grid_state)
                    = OffsetMoved(last.evals[i])

\* C12 amended: whenever an instruction is emitted and the write of the grid
\* state that follows it succeeds, the persisted offset moves by exactly
\* min(lines crossed, max fillable), added going up and subtracted going
\* down; when that write fails the persisted offset stays as it was read and
\* the invocation ends with an error.
C12_OffsetMovesWhenStored ==
    (last.op = "pool" /\ last.read) =>
        \A i \in DOMAIN last.evals :
            LET ev == last.evals[i]
            IN  Emitted(ev) =>
                    IF Stored(last, i)
                    THEN OffsetAfter(last.evals, i, grid_state)
                             = OffsetMoved(ev)
                    ELSE /\ OffsetAfter(last.evals, i, grid_state)
                               = ev.grid_state.line_offset
                         /\ last.result = "err"

\* C12 witness: an instruction was emitted for fewer lines than were crossed
\* and the stored offset moved by the lines filled
C12_Witness ==
    /\ last.op = "pool" /\ last.read /\ last.result = "ack"
    /\ \E i \in DOMAIN last.evals :
          LET ev == last.evals[i]
          IN  /\ Emitted(ev)
              /\ LinesFilled(ev) < Len(ev.crossed)
              /\ OffsetAfter(last.evals, i, grid_state) = OffsetMoved(ev)
              /\ OffsetMoved(ev) # ev.new_offset

\* lines were crossed but nothing can be filled: the per-line amount is 0 or
\* the order holds less than one per-line amount of the offered token
Unfillable(ev) ==
    /\ ev.crossed # <<>>
    /\ \/ PerLine(ev) = 0
       \/ asset_amount(EntryOf(ev.output).utxo, OfferedToken(ev)) < PerLine(ev)

\* C13: when grid lines were crossed but the per-line amount is 0 or the
\* order's balance is smaller than one per-line amount, no instruction is
\* emitted and the persisted offset is nevertheless moved off the value it
\* had, toward the newly computed offset.
C13_OffsetAdvancedWithoutFill ==
    (last.op = "pool" /\ last.read /\ last.result = "ack") =>
        \A i \in DOMAIN last.evals :
            LET ev == last.evals[i]
            IN  Unfillable(ev) =>
                    /\ ~IsSome(ev.sent)
                    /\ OffsetAfter(last.evals, i, grid_state)
                           # ev.grid_state.line_offset

\* the grid state stored under a key, None when there is none
StoredUnder(states, key) ==
    IF key \in DOMAIN states THEN Some(states[key]) ELSE None

\* C14: grid state is per custody order. Every evaluation of an order uses a
\* state whose initial amounts are that order's own balances, and when a
\* snapshot emits an instruction for one order, the state persisted for any
\* other live order matching the pool, for which nothing was emitted, is
\* left unchanged.
C14_GridStatePerOrder ==
    [][(last'.op = "pool" /\ last'.read) =>
         \A i \in DOMAIN last'.evals :
            LET ev == last'.evals[i]
                own == EntryOf(ev.output).utxo
            IN  /\ ev.grid_state.init_strat
                       = asset_amount(own, config.strategy_token)
                /\ ev.grid_state.init_base
                       = asset_amount(own, config.base_token)
                /\ Emitted(ev) =>
                     \A k \in GridRelevant(last'.pool_state) :
                        LET other == managed_orders[k]
                            key == grid_state_key(other.order.details.signer)
                        IN  ( /\ other.output # ev.output
                              /\ \A j \in DOMAIN last'.evals :
                                    last'.evals[j].output = other.output
                                        => ~IsSome(last'.evals[j].sent) )
                            => StoredUnder(grid_state', key)
                                   = StoredUnder(grid_state, key)]_vars

\* the token asked for in return for the offered one
AskedToken(ev) ==
    IF GoesUp(ev) THEN config.base_token ELSE config.strategy_token

\* floor of the sum, over the lines filled, of per_line * line_price (going
\* up) or per_line / line_price (going down)
MinReceived(ev) ==
    RFloor(RSum([k \in 1..LinesFilled(ev) |->
        IF GoesUp(ev) THEN RMul(RInt(PerLine(ev)), ev.crossed[k])
        ELSE RMul(RInt(PerLine(ev)), RInv(ev.crossed[k]))]))

\* C15: every instruction of the grid worker offers per_line * lines_filled of
\* the strategy token (going up) or of the base token (going down), with
\* per_line the initial amount of that token divided by levels_per_side and
\* lines_filled = min(lines crossed, current balance / per_line); it asks for
\* floor(sum of per_line * line_price) of the base token, going down for
\* floor(sum of per_line / line_price) of the strategy token; the offered
\* amount is positive and at most the order's balance of the offered token.
C15_FillAmounts ==
    (last.op = "pool" /\ last.read) =>
        \A i \in DOMAIN last.evals :
            LET ev == last.evals[i]
                offered == PerLine(ev) * LinesFilled(ev)
            IN  IsSome(ev.sent) =>
                  /\ Unwrap(ev.sent).tx_ref = ev.output
                  /\ Unwrap(ev.sent).offer =
                        <<OfferedToken(ev).policy_id,
                          OfferedToken(ev).asset_name, offered>>
                  /\ Unwrap(ev.sent).min_received =
                        <<AskedToken(ev).policy_id,
                          AskedToken(ev).asset_name, MinReceived(ev)>>
                  /\ offered > 0
                  /\ offered <= asset_amount(EntryOf(ev.output).utxo,
                                             OfferedToken(ev))

\* C15 witness: an instruction going down was emitted for two or more lines
C15_Witness ==
    /\ last.op = "pool" /\ last.read
    /\ \E i \in DOMAIN last.evals :
          LET ev == last.evals[i]
          IN  /\ Emitted(ev) /\ ~GoesUp(ev)
              /\ LinesFilled(ev) >= 2
              /\ Unwrap(ev.sent).offer[3] = PerLine(ev) * LinesFilled(ev)
              /\ Unwrap(ev.sent).min_received[3] = MinReceived(ev)

-----------------------------------------------------------------------------
(* Claims on the contents of the stop-loss instructions *)

\* the asset of the configured pair that is not sold
OppositeAsset ==
    IF config.sell_token = config.token_a THEN config.token_b
    ELSE config.token_a

\* the instruction the claim describes for a ledger entry, `ratio` being the
\* number of units asked per unit offered
StopLossInstruction(entry, ratio) ==
    LET balance == asset_amount(entry.utxo, config.sell_token)
    IN  [tx_ref |-> entry.output,
         offer |-> <<config.sell_token.policy_id,
                     config.sell_token.asset_name, balance>>,
         min_received |-> <<OppositeAsset.policy_id, OppositeAsset.asset_name,
                            RFloor(RMul(RInt(balance), ratio))>>]

\* an instruction without how its submission ended
Contents(ins) ==
    [tx_ref |-> ins.tx_ref, offer |-> ins.offer,
     min_received |-> ins.min_received]

\* C16 as stated: every instruction targets the triggering order's output,
\* offers its full balance of the sell asset and asks floor(balance * ratio)
\* of the opposite asset, the ratio being execution_price, inverted when the
\* sell asset is the pair's second asset (token_b).
C16_InvertedForSecondAsset ==
    (last.op = "pool" /\ last.read) =>
        \A i \in DOMAIN last.sent :
            /\ last.sent[i].tx_ref \in OutputsOf(managed_orders)
            /\ Contents(last.sent[i]) =
                  StopLossInstruction(EntryOf(last.sent[i].tx_ref),
                      IF config.sell_token = config.token_b
                      THEN RInv(config.execution_price)
                      ELSE config.execution_price)

\* C16 amended: as above, but the ratio is inverted when the sell asset is
\* the pair's first asset (token_a), and is execution_price itself when the
\* sell asset is the second asset (token_b).
C16_InvertedForFirstAsset ==
    (last.op = "pool" /\ last.read) =>
        \A i \in DOMAIN last.sent :
            /\ last.sent[i].tx_ref \in OutputsOf(managed_orders)
            /\ last.sent[i].tx_ref =
                  RelevantOutputs(last.pool_state,
                                  config.token_a, config.token_b)[i]
            /\ Contents(last.sent[i]) =
                  StopLossInstruction(EntryOf(last.sent[i].tx_ref),
                      IF config.sell_token = config.token_a
                      THEN RInv(config.execution_price)
                      ELSE config.execution_price)

\* C16 witness: instructions were posted selling the first asset of the pair,
\* one of them asking floor(50 / 2) = 25 of the second
C16_Witness ==
    /\ last.op = "pool" /\ last.read
    /\ config.sell_token = config.token_a
    /\ \E i \in DOMAIN last.sent :
          /\ last.sent[i].outcome = "ok"
          /\ last.sent[i].offer[3] = 50
          /\ last.sent[i].min_received =
                <<config.token_b.policy_id, config.token_b.asset_name, 25>>

-----------------------------------------------------------------------------
(* Claims on the contents of the trailing-stop exit instructions *)

\* floor(position_amount * trigger_price * (1 - slippage_tolerance))
ExitFloor(position_amount, trigger_price) ==
    RFloor(RMul(RMul(RInt(position_amount), trigger_price),
                ROneMinus(config.slippage_tolerance)))

\* C17: every exit instruction targets the order's output, offers the
\* output's entire balance of the position token and asks
\* max(1, floor(position_amount * trigger_price * (1 - slippage_tolerance)))
\* of the exit token; the minimum asked is never 0.
C17_ExitContents ==
    (last.op = "pool" /\ last.read) =>
        \A i \in DOMAIN last.evals :
            LET ev == last.evals[i]
                amount == asset_amount(EntryOf(ev.output).utxo,
                                       config.position_token)
                floored == ExitFloor(amount, ev.trigger)
            IN  IsSome(ev.exit) =>
                  /\ ev.trigger = RMul(ev.peak, ROneMinus(config.trail_percent))
                  /\ Unwrap(ev.exit).tx_ref = ev.output
                  /\ Unwrap(ev.exit).offer =
                        <<config.position_token.policy_id,
                          config.position_token.asset_name, amount>>
                  /\ Unwrap(ev.exit).min_received =
                        <<config.exit_token.policy_id,
                          config.exit_token.asset_name,
                          IF floored > 1 THEN floored ELSE 1>>
                  /\ Unwrap(ev.exit).min_received[3] # 0

\* C17 witness: an exit was submitted whose floored value is 0 and whose
\* minimum asked is 1
C17_Witness ==
    /\ last.op = "pool" /\ last.read
    /\ \E i \in DOMAIN last.evals :
          LET ev == last.evals[i]
          IN  /\ IsSome(ev.exit)
              /\ Unwrap(ev.exit).outcome = "ok"
              /\ ExitFloor(Unwrap(ev.exit).offer[3], ev.trigger) = 0
              /\ Unwrap(ev.exit).min_received[3] = 1

-----------------------------------------------------------------------------
(* PoolState::is_correct_pool applied to every pool, order and asset pair *)

\* the state of a run that only applies a function: nothing is registered,
\* nothing is stored, `last` holds the inputs and then the result
PureInit(inputs) ==
    /\ public_keys = None
    /\ config = NoConfig
    /\ managed_orders = <<>>
    /\ inflight = [p \in Procs |-> Idle]
    /\ live = {}
    /\ overlapped = FALSE
    /\ events = 0
    /\ peak_price = <<>>
    /\ grid_state = <<>>
    /\ track = <<>>
    /\ last \in inputs

MatchAssets == {ADA, TokenX, TokenY}
MatchIdents == {"P1", "P2"}

\* every pool of two identifiers over three assets, every order with or
\* without a pool identifier, every pair of expected assets
MatchInputs ==
    {[op |-> "match_input",
      pool_state |-> pool_state_of(
          Utxo(OutputReference("T3", 0), 5,
               Some(PoolDatum(ident, asset_a, asset_b, 0)),
               TxOutput(0, <<>>))),
      order |-> OrderDatum(pool_ident, OrderStrategy("K1")),
      token_a |-> token_a, token_b |-> token_b] :
        ident \in MatchIdents, asset_a \in MatchAssets, asset_b \in MatchAssets,
        pool_ident \in {None} \cup {Some(i) : i \in MatchIdents},
        token_a \in MatchAssets, token_b \in MatchAssets}

InitMatch == PureInit(MatchInputs)

\* the call, and the call with the expected assets exchanged
ApplyMatch ==
    /\ last.op = "match_input"
    /\ last' = [op |-> "match", pool_state |-> last.pool_state,
                order |-> last.order,
                token_a |-> last.token_a, token_b |-> last.token_b,
                result |-> is_correct_pool(last.pool_state, last.order,
                                           last.token_a, last.token_b),
                exchanged |-> is_correct_pool(last.pool_state, last.order,
                                              last.token_b, last.token_a)]
    /\ UNCHANGED <<worker_state, public_keys, config, managed_orders,
                   inflight, live, overlapped, events>>

NextMatch == ApplyMatch

SpecMatch == InitMatch /\ [][NextMatch]_vars

\* C18: when the order names a pool identifier the matcher is true exactly
\* when it equals the pool's identifier, whatever the assets; otherwise it is
\* true exactly when the pool's pair is (a, b) or (b, a); and exchanging the
\* two expected assets never changes the result.
C18_MatcherRule ==
    last.op = "match" =>
        LET datum == last.pool_state.pool_datum
            a == last.token_a
            b == last.token_b
            expected ==
                IF last.order.pool_ident # None
                THEN last.order.pool_ident = Some(datum.identifier)
                ELSE datum.assets \in {<<a, b>>, <<b, a>>}
        IN  /\ last.result = expected
            /\ last.exchanged = last.result

\* C18 witness: an order without pool identifier matched a pool whose pair is
\* the expected pair in the other orientation, under a foreign identifier
C18_Witness ==
    /\ last.op = "match"
    /\ last.order.pool_ident = None
    /\ last.token_a # last.token_b
    /\ last.pool_state.pool_datum.assets = <<last.token_b, last.token_a>>
    /\ last.result /\ last.exchanged

-----------------------------------------------------------------------------
(* u64 values: four limbs <<l1, l2, l3, l4>> in base 10^6, lowest first,   *)
(* the value being l1 + 10^6 * l2 + 10^12 * l3 + 10^18 * l4. Intermediate  *)
(* results are exact and may exceed u64; the u64 operations below decide   *)
(* what becomes of them.                                                   *)

LimbBase == 1000 * 1000

\* carry the excess of every limb into the next one
Carry(w) ==
    LET c1 == w[1] \div LimbBase
        c2 == (w[2] + c1) \div LimbBase
        c3 == (w[3] + c2) \div LimbBase
    IN  <<w[1] % LimbBase, (w[2] + c1) % LimbBase, (w[3] + c2) % LimbBase,
          w[4] + c3>>

\* the limbs of a small number
Wide(n) == Carry(<<n, 0, 0, 0>>)
WAdd(x, y) == Carry([i \in 1..4 |-> x[i] + y[i]])
\* x * m for a factor m of at most 1001
WTimes(x, m) == Carry([i \in 1..4 |-> x[i] * m])
WLt(x, y) ==
    \E i \in 1..4 : x[i] < y[i] /\ \A j \in (i + 1)..4 : x[j] = y[j]
WLe(x, y) == ~WLt(y, x)
\* x - y for x >= y
WSub(x, y) ==
    LET b1 == IF x[1] < y[1] THEN 1 ELSE 0
        b2 == IF x[2] < y[2] + b1 THEN 1 ELSE 0
        b3 == IF x[3] < y[3] + b2 THEN 1 ELSE 0
    IN  <<x[1] - y[1] + b1 * LimbBase,
          x[2] - y[2] - b1 + b2 * LimbBase,
          x[3] - y[3] - b2 + b3 * LimbBase,
          x[4] - y[4] - b3>>

\* u64::MAX = 18446744073709551615, and 2^64
U64_MAX == <<551615, 73709, 446744, 18>>
Two64 == WAdd(U64_MAX, Wide(1))
Overflows(x) == WLt(U64_MAX, x)

\* the u64 a wrapping operation leaves: x mod 2^64, for x below 1001 * 2^64
Wrapped(x) ==
    LET k == CHOOSE k \in 0..1000 :
                 /\ WLe(WTimes(Two64, k), x)
                 /\ WLt(x, WTimes(Two64, k + 1))
    IN  WSub(x, WTimes(Two64, k))

\* mutant: the subtraction wraps
wrapping_sub(x, y) ==
    IF WLt(x, y) THEN WSub(WAdd(x, Two64), y) ELSE WSub(x, y)

\* u64::saturating_sub
saturating_sub(x, y) == IF WLt(x, y) THEN Wide(0) ELSE WSub(x, y)

\* u64::saturating_add
saturating_add(x, y) ==
    IF Overflows(WAdd(x, y)) THEN U64_MAX ELSE WAdd(x, y)

\* u64::saturating_mul, for a factor of at most 1001
saturating_mul(x, m) ==
    IF Overflows(WTimes(x, m)) THEN U64_MAX ELSE WTimes(x, m)

-----------------------------------------------------------------------------
(* lib.rs: Network::to_unix_time and PoolState::get_validity_range *)

PreviewOffset == 1666656000
MainnetOffset == 1591566291

Networks == {"preview", "mainnet"}

\* Network::to_unix_time: (slot + offset) * 1000 in u64. When the sum or the
\* product exceeds u64::MAX, a build with overflow checks aborts (None) and
\* a build without them goes on with the wrapped value.
to_unix_time(network, slot, overflow_checks) ==
    LET offset == IF network = "preview" THEN PreviewOffset ELSE MainnetOffset
        sum == WAdd(slot, Wide(offset))
        product == WTimes(Wrapped(sum), 1000)
    IN  IF Overflows(sum) \/ Overflows(product)
        THEN IF overflow_checks THEN None ELSE Some(Wrapped(product))
        ELSE Some(product)

\* Interval::inclusive_range
inclusive_range(lower_millis, upper_millis) ==
    [lower_bound |-> [bound_type |-> <<"Finite", lower_millis>>,
                      is_inclusive |-> TRUE],
     upper_bound |-> [bound_type |-> <<"Finite", upper_millis>>,
                      is_inclusive |-> TRUE]]

\* the body of get_validity_range once now_ms is known
validity_window(now_ms, seconds) ==
    LET delta_ms == saturating_mul(seconds, 1000)
        start == saturating_sub(now_ms, delta_ms)
        end == saturating_add(now_ms, delta_ms)
    IN  inclusive_range(start, end)

\* PoolState::get_validity_range, None when to_unix_time aborts
get_validity_range(network, slot, seconds, overflow_checks) ==
    LET now_ms == to_unix_time(network, slot, overflow_checks)
    IN  IF now_ms = None THEN None
        ELSE Some(validity_window(Unwrap(now_ms), seconds))

\* the validity range built by trigger_exit of the trailing-stop-loss
\* worker: 20 minutes either side of now
exit_validity_range(now) ==
    inclusive_range(saturating_sub(now, Wide(20 * 60 * 1000)),
                    saturating_add(now, Wide(20 * 60 * 1000)))

-----------------------------------------------------------------------------
(* The validity window applied to snapshot times and tolerances *)

\* snapshot times in ms: 0 and its neighbours, the tolerances of the workers
\* (20 s, 20 min) and their neighbours, a time of 2025, and the largest
\* values
WindowNows ==
    {Wide(n) : n \in {0, 1, 999, 1000, 19999, 20000, 20001,
                      1199999, 1200000, 1200001}}
    \cup {<<497000, 752270, 1, 0>>,         \* 1752270497000
          <<531615, 73709, 446744, 18>>,    \* u64::MAX - 20000
          <<531616, 73709, 446744, 18>>,    \* u64::MAX - 19999
          <<551614, 73709, 446744, 18>>,    \* u64::MAX - 1
          U64_MAX}

\* tolerances in seconds: those of the workers, the largest whose product
\* with 1000 fits, the next one, and the largest value
WindowSeconds ==
    {Wide(n) : n \in {0, 1, 20, 1200}}
    \cup {<<709551, 744073, 18446, 0>>,     \* 18446744073709551
          <<709552, 744073, 18446, 0>>,     \* 18446744073709552
          U64_MAX}

WindowInputs ==
    {[op |-> "window_input", now |-> now, seconds |-> seconds] :
        now \in WindowNows, seconds \in WindowSeconds}

InitWindow == PureInit(WindowInputs)

\* the two windows the workers build around a snapshot time
ApplyWindow ==
    /\ last.op = "window_input"
    /\ last' = [op |-> "window", now |-> last.now, seconds |-> last.seconds,
                range |-> validity_window(last.now, last.seconds),
                exit_range |-> exit_validity_range(last.now)]
    /\ UNCHANGED <<worker_state, public_keys, config, managed_orders,
                   inflight, live, overlapped, events>>

NextWindow == ApplyWindow

SpecWindow == InitWindow /\ [][NextWindow]_vars

LowerOf(range) == range.lower_bound.bound_type[2]
UpperOf(range) == range.upper_bound.bound_type[2]

\* the window the claim describes for a tolerance of delta_ms: from
\* max(0, now - delta_ms) to now + delta_ms, the upper end being u64::MAX
\* when the sum exceeds it
WindowAsStated(range, now, delta_ms) ==
    /\ range.lower_bound.is_inclusive /\ range.upper_bound.is_inclusive
    /\ range.lower_bound.bound_type[1] = "Finite"
    /\ range.upper_bound.bound_type[1] = "Finite"
    /\ LowerOf(range) = IF WLe(now, delta_ms) THEN Wide(0)
                        ELSE WSub(now, delta_ms)
    /\ UpperOf(range) = IF Overflows(WAdd(now, delta_ms)) THEN U64_MAX
                        ELSE WAdd(now, delta_ms)
    /\ WLe(LowerOf(range), now) /\ WLe(now, UpperOf(range))

\* C19: for a snapshot time now (ms) and a tolerance of s seconds the window
\* is the inclusive range from max(0, now - 1000 s) to now + 1000 s, with
\* lower <= now <= upper; for now = 0 and a positive tolerance the lower
\* bound is 0. The same holds for the 20 minute window of the trailing-stop
\* exit.
C19_LowerBoundClamped ==
    last.op = "window" =>
        LET delta_ms == IF Overflows(WTimes(last.seconds, 1000)) THEN U64_MAX
                        ELSE WTimes(last.seconds, 1000)
        IN  /\ WindowAsStated(last.range, last.now, delta_ms)
            /\ WindowAsStated(last.exit_range, last.now, Wide(1200000))
            /\ (last.now = Wide(0) /\ last.seconds # Wide(0))
                  => LowerOf(last.range) = Wide(0)
            /\ last.now = Wide(0) => LowerOf(last.exit_range) = Wide(0)

\* C19 witness: the window for now = 0 and a tolerance of 20 s is [0, 20000],
\* and the exit window is [0, 1200000]
C19_Witness ==
    /\ last.op = "window"
    /\ last.now = Wide(0) /\ last.seconds = Wide(20)
    /\ LowerOf(last.range) = Wide(0)
    /\ UpperOf(last.range) = Wide(20000)
    /\ LowerOf(last.exit_range) = Wide(0)
    /\ UpperOf(last.exit_range) = Wide(1200000)

-----------------------------------------------------------------------------
(* get_validity_range applied to slots, tolerances, networks and builds *)

\* slots: the first ones, a slot of 2025, the last slot whose time fits u64
\* on either network and the one after it, the slot whose wrapped time is 0
\* on preview, and the largest values
ValiditySlots ==
    {Wide(n) : n \in {0, 1}}
    \cup {<<614497, 85, 0, 0>>,             \* 85614497
          <<53551, 742407, 18446, 0>>,      \* 18446742407053551
          <<53552, 742407, 18446, 0>>,      \* 18446742407053552
          <<143260, 742482, 18446, 0>>,     \* 18446742482143260
          <<143261, 742482, 18446, 0>>,     \* 18446742482143261
          <<37952, 7547, 305843, 2>>,       \* 2^61 - 1666656000
          <<895615, 72042, 446744, 18>>,    \* u64::MAX - 1666656000
          U64_MAX}

ValiditySeconds == {Wide(n) : n \in {0, 20, 1200}} \cup {U64_MAX}

ValidityInputs ==
    {[op |-> "validity_input", network |-> network, slot |-> slot,
      seconds |-> seconds, overflow_checks |-> overflow_checks] :
        network \in Networks, slot \in ValiditySlots,
        seconds \in ValiditySeconds, overflow_checks \in BOOLEAN}

InitValidity == PureInit(ValidityInputs)

\* one call of get_validity_range; `now_ms` is what to_unix_time returned
ApplyValidity ==
    /\ last.op = "validity_input"
    /\ last' = [op |-> "validity", network |-> last.network,
                slot |-> last.slot, seconds |-> last.seconds,
                overflow_checks |-> last.overflow_checks,
                now_ms |-> to_unix_time(last.network, last.slot,
                                        last.overflow_checks),
                range |-> get_validity_range(last.network, last.slot,
                              last.seconds, last.overflow_checks)]
    /\ UNCHANGED <<worker_state, public_keys, config, managed_orders,
                   inflight, live, overlapped, events>>

NextValidity == ApplyValidity

SpecValidity == InitValidity /\ [][NextValidity]_vars

\* (slot + genesis_offset) * 1000, exactly
ExactNow(network, slot) ==
    WTimes(WAdd(slot, Wide(IF network = "preview" THEN 1666656000
                           ELSE 1591566291)),
           1000)

\* C20: for every slot and tolerance the call returns a window (it does not
\* abort), the snapshot time it is built around is (slot + genesis_offset) *
\* 1000 with genesis_offset 1666656000 on preview and 1591566291 on mainnet,
\* not a wrapped value, and the bounds are max(0, now - 1000 s) and
\* now + 1000 s, the upper bound being u64::MAX when the sum exceeds it.
C20_NeverOverflows ==
    last.op = "validity" =>
        LET now == ExactNow(last.network, last.slot)
            delta_ms == IF Overflows(WTimes(last.seconds, 1000)) THEN U64_MAX
                        ELSE WTimes(last.seconds, 1000)
        IN  /\ last.now_ms # None
            /\ last.range # None
            /\ Unwrap(last.now_ms) = now
            /\ LowerOf(Unwrap(last.range)) =
                  IF WLe(now, delta_ms) THEN Wide(0) ELSE WSub(now, delta_ms)
            /\ UpperOf(Unwrap(last.range)) =
                  IF Overflows(WAdd(now, delta_ms)) THEN U64_MAX
                  ELSE WAdd(now, delta_ms)

\* whenever the exact time fits u64 the call behaves as C20 states
C20_HoldsWhileTimeFits ==
    (last.op = "validity" /\ ~Overflows(ExactNow(last.network, last.slot)))
        => /\ last.now_ms = Some(ExactNow(last.network, last.slot))
           /\ last.range # None
           /\ WindowAsStated(Unwrap(last.range),
                  ExactNow(last.network, last.slot),
                  IF Overflows(WTimes(last.seconds, 1000)) THEN U64_MAX
                  ELSE WTimes(last.seconds, 1000))

-----------------------------------------------------------------------------
(* lib.rs: Handler for Strategy::handle *)

\* An event as the three try_into() attempts see it: what each decode yields
Event(tx, utxo, params) == [tx |-> tx, utxo |-> utxo, params |-> params]

\* mutant: the output decode is tried before the transaction decode
classify_utxo_first(event) ==
    IF IsSome(event.utxo) THEN "utxo"
    ELSE IF IsSome(event.tx) THEN "tx"
    ELSE IF IsSome(event.params) THEN "key"
    ELSE "noop"

\* the if / else-if chain of handle: the handler the event goes to
classify(event) ==
    IF IsSome(event.tx) THEN "tx"
    ELSE IF IsSome(event.utxo) THEN "utxo"
    ELSE IF IsSome(event.params) THEN "key"
    ELSE "noop"

\* keys::get_signer_key: the public key registered under STRATEGY_KEY
get_signer_key(keys, params) ==
    IF IsSome(keys) THEN [result |-> "ack", key |-> keys]
    ELSE [result |-> "err", key |-> None]

\* the events of this run: every combination of what the decodes yield
DispatchUtxos ==
    {Utxo(OutputReference("T1", 0), 0, d, TxOutput(0, <<>>)) :
        d \in {Some(OtherDatum), Some(OrderDatum(None, OrderStrategy("K1")))}}
    \cup {Utxo(OutputReference("T2", 1), 0,
               Some(OrderDatum(None, OrderStrategy("K1"))), TxOutput(0, <<>>))}
DispatchTxs ==
    {{OutputReference("T1", 0)},
     {OutputReference("T1", 0), OutputReference("T2", 1)}}
DispatchEvents ==
    {Event(tx, utxo, params) :
        tx \in {None} \cup {Some(ins) : ins \in DispatchTxs},
        utxo \in {None} \cup {Some(u) : u \in DispatchUtxos},
        params \in {None, Some("get-signer-key")}}

\* the host delivers an event together with the configuration bytes;
\* config_ok: whether config.try_into() succeeds
Deliver(event, config_ok) ==
    /\ last.op # "received"
    /\ inflight' = [inflight EXCEPT ![1] =
            [pc |-> "delivered", event |-> event, config_ok |-> config_ok]]
    /\ last' = [op |-> "received"]
    /\ UNCHANGED <<worker_state, public_keys, config, managed_orders, live,
                   overlapped, events>>

\* config.try_into()? fails: the error is returned before any decode
ConfigRejected ==
    /\ last' = [op |-> "config", result |-> "err"]
    /\ UNCHANGED <<worker_state, public_keys, config, managed_orders,
                   inflight, live, overlapped, events>>

\* the third branch: get_signer_key(config, params)?
GetSignerKey(params) ==
    /\ last' = [op |-> "key", key |-> get_signer_key(public_keys, params).key,
                result |-> get_signer_key(public_keys, params).result]
    /\ UNCHANGED <<worker_state, public_keys, config, managed_orders,
                   inflight, live, overlapped, events>>

\* the last branch: Ok(Ack)
Ignored ==
    /\ last' = [op |-> "noop", result |-> "ack"]
    /\ UNCHANGED <<worker_state, public_keys, config, managed_orders,
                   inflight, live, overlapped, events>>

\* Strategy::handle for the event delivered
Handle(get_ok, set_ok) ==
    /\ last.op = "received"
    /\ \E event \in {inflight[1].event} :
          \/ ~inflight[1].config_ok /\ ConfigRejected
          \/ /\ inflight[1].config_ok /\ classify(event) = "tx"
             /\ HandleTx(Unwrap(event.tx), get_ok, set_ok)
          \/ /\ inflight[1].config_ok /\ classify(event) = "utxo"
             /\ HandleUtxo(Unwrap(event.utxo), get_ok, set_ok)
          \/ /\ inflight[1].config_ok /\ classify(event) = "key"
             /\ GetSignerKey(Unwrap(event.params))
          \/ /\ inflight[1].config_ok /\ classify(event) = "noop"
             /\ Ignored

NextDispatch ==
    \/ \E e \in DispatchEvents, c \in BOOLEAN : Deliver(e, c)
    \/ \E g, s \in BOOLEAN : Handle(g, s)

SpecDispatch == Init /\ [][NextDispatch]_vars

-----------------------------------------------------------------------------
(* Claims on the event classifier *)

\* the event whose handling `last` describes
Handled == last.op \notin {"init", "received"}
Delivered == inflight[1].event
Persisted == <<managed_orders, peak_price, grid_state>>

\* the decodes in the order the claim gives them, and the first that succeeds
Attempts == <<"tx", "utxo", "key">>
Decodes(event, attempt) ==
    IsSome(CASE attempt = "tx" -> event.tx
             [] attempt = "utxo" -> event.utxo
             [] attempt = "key" -> event.params)
FirstThatDecodes(event) ==
    LET hits == {i \in DOMAIN Attempts : Decodes(event, Attempts[i])}
    IN  IF hits = {} THEN "noop"
        ELSE Attempts[CHOOSE i \in hits : \A j \in hits : i <= j]

\* what C21 states of the step that handles an event
ClassifiedAsStated ==
    /\ last'.op = FirstThatDecodes(Delivered)
    /\ FirstThatDecodes(Delivered) = "noop" =>
          /\ last'.result = "ack"
          /\ Persisted' = Persisted

\* C21 as written: every event handled goes to the handler of the first
\* decode that succeeds (transaction, then output, then key lookup), and an
\* event that decodes as none of them is acknowledged without error and
\* without a change of the persisted state.
C21_FirstDecodeOrNoOp ==
    [][(last.op = "received" /\ last'.op # "received")
          => ClassifiedAsStated]_vars

\* C21 amended: the same for every event delivered with a configuration
\* that decodes; with one that does not, the handler returns the error before
\* it tries any decode and the persisted state is unchanged.
C21_FirstDecodeWhenConfigured ==
    [][(last.op = "received" /\ last'.op # "received")
          => IF inflight[1].config_ok THEN ClassifiedAsStated
             ELSE /\ last'.op = "config" /\ last'.result = "err"
                  /\ Persisted' = Persisted]_vars

\* C21 witness: an event that decodes as nothing was acknowledged while
\* orders were in custody, under a configuration that decodes
C21_Witness ==
    /\ Handled /\ last.op = "noop" /\ last.result = "ack"
    /\ inflight[1].config_ok
    /\ FirstThatDecodes(Delivered) = "noop"
    /\ managed_orders # <<>>

-----------------------------------------------------------------------------
(* Claims on the sighting of outputs that are not ours *)

\* the datum is absent or does not parse as order terms
NotOrderTerms(utxo) ==
    \/ utxo.datum = None
    \/ Unwrap(utxo.datum).shape # "order"

\* the datum is a valid order that the key `keys` registers does not
\* authorize: no Strategy order, or signed for another key
NotAuthorizedBy(keys, utxo) ==
    /\ ~NotOrderTerms(utxo)
    /\ \/ Unwrap(utxo.datum).details.kind # "Strategy"
       \/ keys = None
       \/ Unwrap(utxo.datum).details.signer # Unwrap(keys)

\* the step left the sighting alone and acknowledged it
SilentlySkipped ==
    /\ last'.result = "ack"
    /\ managed_orders' = managed_orders
    /\ ~last'.notified

\* C22 as written: a sighting whose datum is absent, does not parse as order
\* terms, or is an order this worker's key does not authorize is acknowledged
\* without error, leaves the custody ledger as it was and does not reach the
\* new-order callback.
C22_ForeignSightingSkipped ==
    [][(/\ last'.op = "utxo"
        /\ \/ NotOrderTerms(last'.utxo)
           \/ NotAuthorizedBy(public_keys, last'.utxo))
          => SilentlySkipped]_vars

\* C22 amended: the same when a key is registered for the worker, and for a
\* datum that is absent or does not parse whether or not one is; with no key
\* registered, a sighting whose datum parses as order terms ends in an error,
\* the ledger as it was and the callback not reached.
C22_ForeignSightingSkippedWithKey ==
    [][last'.op = "utxo" =>
        /\ (\/ NotOrderTerms(last'.utxo)
            \/ (public_keys # None /\ NotAuthorizedBy(public_keys, last'.utxo)))
              => SilentlySkipped
        /\ (public_keys = None /\ ~NotOrderTerms(last'.utxo))
              => /\ last'.result = "err"
                 /\ managed_orders' = managed_orders
                 /\ ~last'.notified]_vars

\* C22 witness: with orders in custody, a Strategy order signed for another
\* key was sighted and acknowledged
C22_Witness ==
    /\ last.op = "utxo" /\ last.result = "ack"
    /\ public_keys # None
    /\ ~NotOrderTerms(last.utxo)
    /\ Unwrap(last.utxo.datum).details.kind = "Strategy"
    /\ Unwrap(last.utxo.datum).details.signer # Unwrap(public_keys)
    /\ managed_orders # <<>>

-----------------------------------------------------------------------------
(* Claims on failures: signing, the relay, the store *)

\* the submissions the invocation described by `last` made, whatever worker
\* ran it
Submissions ==
    IF config.worker = "stop-loss"
    THEN {last.sent[i] : i \in DOMAIN last.sent}
    ELSE IF config.worker = "trailing-stop-loss"
    THEN {Unwrap(last.evals[i].exit) :
            i \in {j \in DOMAIN last.evals : IsSome(last.evals[j].exit)}}
    ELSE {Unwrap(last.evals[i].sent) :
            i \in {j \in DOMAIN last.evals : IsSome(last.evals[j].sent)}}

\* C23: whatever the worker, a pool-snapshot invocation in which the
\* signature request of a submission failed (the signing key is not in the
\* runtime's key set) ends with an error; it is not acknowledged.
C23_MissingKeyIsFatal ==
    (/\ last.op = "pool"
     /\ \E s \in Submissions : s.outcome = "sign_error")
        => last.result = "err"

\* the failures of a submission only: at most one attempt of an invocation
\* fails (the invocation of these workers ends there)
SingleFailures == {f \in SubmitFailures : Cardinality(f.at) <= 1}
SubmissionFaults ==
    {f \in Faults : f.kind \in {"none", "sign_error", "relay_error"}}

\* the stop-loss worker or the grid worker, the store reliable, signing and
\* the relay not
InitPropagate ==
    /\ public_keys = Some("K1")
    /\ config \in StopLossConfigs \cup GridConfigs
    /\ LedgerInit

NextPropagateStopLoss ==
    /\ config.worker = "stop-loss"
    /\ \/ \E u \in StopLossOrderUtxos : HandleUtxo(u, TRUE, TRUE)
       \/ \E u \in StopLossOrderUtxos :
             HandleTx({OutputReference(u.tx_hash, u.index)}, TRUE, TRUE)
       \/ \E u \in StopLossPoolUtxos, f \in SingleFailures :
             StopLossPoolState(u, TRUE, f)

NextPropagateGrid ==
    /\ config.worker = "symmetrical-grid"
    /\ \/ \E u \in GridFundedUtxos : HandleUtxo(u, TRUE, TRUE)
       \/ \E u \in GridFundedUtxos :
             HandleTx({OutputReference(u.tx_hash, u.index)}, TRUE, TRUE)
       \/ \E u \in GridPoolUtxos, f \in SubmissionFaults :
             GridPoolState(u, TRUE, f)

NextPropagate == NextPropagateStopLoss \/ NextPropagateGrid

SpecPropagate == InitPropagate /\ [][NextPropagate]_vars

\* what the invocation did for each order it evaluated, in custody order: the
\* submission made for it, if any
Steps ==
    IF config.worker = "stop-loss"
    THEN [i \in DOMAIN last.sent |-> Some(last.sent[i])]
    ELSE [i \in DOMAIN last.evals |-> last.evals[i].sent]

FailedAt(i) == IsSome(Steps[i]) /\ Unwrap(Steps[i]).outcome # "ok"

\* the custody entries the worker evaluates for the snapshot when nothing
\* fails
Evaluable ==
    IF config.worker = "stop-loss"
    THEN SelectSeq(managed_orders, LAMBDA s :
            is_correct_pool(last.pool_state, s.order,
                            config.token_a, config.token_b))
    ELSE SelectSeq(managed_orders, LAMBDA s :
            /\ is_correct_pool(last.pool_state, s.order,
                               config.strategy_token, config.base_token)
            /\ s.order.details.kind = "Strategy"
            /\ asset_amount(s.utxo, config.strategy_token)
                  + asset_amount(s.utxo, config.base_token) > 0)

\* C24: in the stop-loss and grid workers, a pool-snapshot invocation in which
\* the submission for an order fails (at signing or at the relay) returns an
\* error, and that order is the last one the invocation evaluates: no order
\* after it in the custody list is evaluated.
C24_SubmissionFailurePropagates ==
    last.op = "pool" =>
        \A i \in DOMAIN Steps :
            FailedAt(i) => /\ last.result = "err"
                           /\ i = Len(Steps)

\* C24 witness: the relay refused the grid worker's instruction for an order
\* that is not the last one the snapshot concerns; the invocation ended there
\* with an error
C24_Witness ==
    /\ last.op = "pool" /\ last.result = "err"
    /\ config.worker = "symmetrical-grid"
    /\ Steps # <<>> /\ FailedAt(Len(Steps))
    /\ Unwrap(Steps[Len(Steps)]).outcome = "relay_error"
    /\ Len(Steps) < Len(Evaluable)

-----------------------------------------------------------------------------
(* workers/trailing-stop-loss: the get-peak-price request handler *)

\* hex::decode on the texts a request may carry: two spellings of the hash
\* of T1, the hash of T2, a text with a letter that is no hex digit, a text
\* of odd length
HexTexts == {"aa", "AA", "bb", "zz", "a"}
hex_decode(text) ==
    CASE text \in {"aa", "AA"} -> Some("T1")
      [] text = "bb" -> Some("T2")
      [] OTHER -> None

\* Params<GetPeakPriceParams> as event.try_into() yields them; None when the
\* event does not decode
PeakRequests ==
    {None} \cup
    {Some([tx_hash |-> t, output_index |-> i]) : t \in HexTexts, i \in Indexes}

\* mutant: the peak is looked up under the transaction's first output
get_peak_price_first_output(request, peaks, get_ok) ==
    IF ~IsSome(request)
    THEN [code |-> 400, message |-> "invalid request parameters",
          peak_price |-> None]
    ELSE IF ~IsSome(hex_decode(Unwrap(request).tx_hash))
    THEN [code |-> 400, message |-> "invalid tx_hash hex encoding",
          peak_price |-> None]
    ELSE IF ~get_ok
    THEN [code |-> 500, message |-> "kv", peak_price |-> None]
    ELSE [code |-> 200, message |-> "",
          peak_price |->
            kv_get(peaks, peak_price_key(OutputReference(
                Unwrap(hex_decode(Unwrap(request).tx_hash)), 0)))]

\* GetPeakPriceHandler::handle: the response, or the HandleError
get_peak_price(request, peaks, get_ok) ==
    IF ~IsSome(request)
    THEN [code |-> 400, message |-> "invalid request parameters",
          peak_price |-> None]
    ELSE IF ~IsSome(hex_decode(Unwrap(request).tx_hash))
    THEN [code |-> 400, message |-> "invalid tx_hash hex encoding",
          peak_price |-> None]
    ELSE IF ~get_ok
    THEN [code |-> 500, message |-> "kv", peak_price |-> None]
    ELSE [code |-> 200, message |-> "",
          peak_price |->
            kv_get(peaks, peak_price_key(OutputReference(
                Unwrap(hex_decode(Unwrap(request).tx_hash)),
                Unwrap(request).output_index)))]

\* a get-peak-price request is served; get_ok: whether kv::get succeeds
GetPeakPrice(request, get_ok) ==
    /\ last' = [op |-> "get-peak-price", request |-> request,
                read |-> get_ok,
                response |-> get_peak_price(request, peak_price, get_ok)]
    /\ UNCHANGED <<worker_state, public_keys, config, managed_orders,
                   inflight, live, overlapped, events>>

\* the trailing-stop-loss worker with its request handler; only the read of
\* the request handler may fail
NextPeakQuery ==
    \/ NextTrailingSteady
    \/ \E request \in PeakRequests, g \in BOOLEAN : GetPeakPrice(request, g)

SpecPeakQuery == InitTrailing /\ [][NextPeakQuery]_vars

-----------------------------------------------------------------------------
(* Claims on the get-peak-price request *)

\* the texts that are hex, and the transaction hash each spells
ValidHex == {"aa", "AA", "bb"}
HashSpelled(text) == IF text \in {"aa", "AA"} THEN "T1" ELSE "T2"

\* the answer is the peak stored for exactly the output the request names
AnswersStoredPeak(request, response) ==
    LET ref == OutputReference(HashSpelled(request.tx_hash),
                               request.output_index)
    IN  /\ response.code = 200
        /\ response.peak_price =
              IF ref \in DOMAIN peak_price THEN Some(peak_price[ref])
              ELSE None

\* C25 as written: a get-peak-price request changes nothing that is
\* persisted; for (tx_hash, output_index) with a tx_hash that is hex it
\* returns the peak stored under exactly that output reference, or absent;
\* with a tx_hash that is not hex it returns a 400 error.
C25_ReadOnlyProjection ==
    [][(last'.op = "get-peak-price" /\ last'.request # None) =>
        /\ Persisted' = Persisted
        /\ IF Unwrap(last'.request).tx_hash \in ValidHex
           THEN AnswersStoredPeak(Unwrap(last'.request), last'.response)
           ELSE last'.response.code = 400]_vars

\* C25 amended: the same when the read of the store succeeds; when it fails
\* the request with a hex tx_hash is answered with a 500 error, and nothing
\* persisted changes either.
C25_ReadOnlyProjectionWhenRead ==
    [][(last'.op = "get-peak-price" /\ last'.request # None) =>
        /\ Persisted' = Persisted
        /\ IF Unwrap(last'.request).tx_hash \notin ValidHex
           THEN last'.response.code = 400
           ELSE IF last'.read
           THEN AnswersStoredPeak(Unwrap(last'.request), last'.response)
           ELSE last'.response.code = 500]_vars

\* C25 witness: with a peak stored for T1#0, a request that spells the hash
\* of T1 in capitals and names output 1 was answered with no peak
C25_Witness ==
    /\ last.op = "get-peak-price" /\ last.request # None
    /\ Unwrap(last.request) = [tx_hash |-> "AA", output_index |-> 1]
    /\ last.response.code = 200 /\ last.response.peak_price = None
    /\ OutputReference("T1", 0) \in DOMAIN peak_price

-----------------------------------------------------------------------------
(* types.rs: asset_amount on every small bundle *)

\* the groups and bundles of at most two entries over two policies, two
\* names and three amounts
AmountEntries ==
    {Asset(n, c) : n \in {"X", "Y"}, c \in {1, 2, 4}}
AmountGroups ==
    {Multiasset(p, as) :
        p \in {"PX", "PY"},
        as \in {<<>>} \cup {<<a>> : a \in AmountEntries}
                 \cup {<<a, b>> : a \in AmountEntries, b \in AmountEntries}}
AmountBundles ==
    {<<>>} \cup {<<g>> : g \in AmountGroups}
           \cup {<<g, h>> : g \in AmountGroups,
                            h \in {k \in AmountGroups : Len(k.assets) <= 1}}
AmountInputs ==
    {[op |-> "amount_input", output |-> TxOutput(7, bundle),
      find_asset |-> asset] :
        bundle \in AmountBundles, asset \in {ADA, TokenX, TokenY}}

InitAmount == PureInit(AmountInputs)

\* one call of asset_amount
ApplyAmount ==
    /\ last.op = "amount_input"
    /\ last' = [op |-> "amount", output |-> last.output,
                find_asset |-> last.find_asset,
                result |-> asset_amount(last.output, last.find_asset)]
    /\ UNCHANGED <<worker_state, public_keys, config, managed_orders,
                   inflight, live, overlapped, events>>

NextAmount == ApplyAmount

SpecAmount == InitAmount /\ [][NextAmount]_vars

\* the amounts of the entries of a group, of a bundle, that match the asset
RECURSIVE MatchingInGroup(_, _, _)
MatchingInGroup(policy_id, entries, find_asset) ==
    IF entries = <<>> THEN 0
    ELSE (IF /\ policy_id = find_asset.policy_id
             /\ Head(entries).name = find_asset.asset_name
          THEN Head(entries).output_coin ELSE 0)
         + MatchingInGroup(policy_id, Tail(entries), find_asset)
RECURSIVE MatchingInBundle(_, _)
MatchingInBundle(bundle, find_asset) ==
    IF bundle = <<>> THEN 0
    ELSE MatchingInGroup(Head(bundle).policy_id, Head(bundle).assets,
                         find_asset)
         + MatchingInBundle(Tail(bundle), find_asset)

\* C26: the amount of a non-native asset read from an output is the sum of
\* the amounts of all entries of the bundle whose policy id and asset name
\* both match, 0 when none matches.
C26_SumOfMatchingEntries ==
    (last.op = "amount" /\ ~is_ada(last.find_asset)) =>
        last.result = MatchingInBundle(last.output.assets, last.find_asset)

\* whenever at most one entry matches, the amount is that entry's amount, or
\* 0 when none does
C26_HoldsForOneMatch ==
    (/\ last.op = "amount" /\ ~is_ada(last.find_asset)
     /\ Cardinality({<<g, i>> \in
            UNION {{<<g1, i1>> : i1 \in DOMAIN last.output.assets[g1].assets} :
                      g1 \in DOMAIN last.output.assets} :
            /\ last.output.assets[g].policy_id = last.find_asset.policy_id
            /\ last.output.assets[g].assets[i].name
                  = last.find_asset.asset_name}) <= 1)
        => last.result = MatchingInBundle(last.output.assets, last.find_asset)

-----------------------------------------------------------------------------
(* serialize and parse of a StrategyExecution (types.rs): the value is     *)
(* turned into Plutus data field by field as the type declarations say,    *)
(* and the data into CBOR bytes; parse reads the bytes back. Bytes are     *)
(* numbers 0..255, u64 fields are limbs.                                   *)

\* one step of the division of a wide number by 256, highest limb first
RECURSIVE WDiv256(_, _, _)
WDiv256(x, i, r) ==
    IF i = 0 THEN <<r>>
    ELSE WDiv256(x, i - 1, (r * LimbBase + x[i]) % 256)
             \o <<(r * LimbBase + x[i]) \div 256>>

\* the big-endian bytes of a u64, without leading zeros
RECURSIVE be_bytes(_)
be_bytes(x) ==
    IF x = Wide(0) THEN <<>>
    ELSE Only({be_bytes(SubSeq(d, 2, 5)) \o <<d[1]>> : d \in {WDiv256(x, 4, 0)}})

\* the u64 that big-endian bytes spell
RECURSIVE from_be_bytes(_)
from_be_bytes(bytes) ==
    IF bytes = <<>> THEN Wide(0)
    ELSE WAdd(WTimes(from_be_bytes(SubSeq(bytes, 1, Len(bytes) - 1)), 256),
              Wide(bytes[Len(bytes)]))

RECURSIVE Zeros(_)
Zeros(n) == IF n <= 0 THEN <<>> ELSE <<0>> \o Zeros(n - 1)

\* the head of a CBOR item: major type and argument in the shortest form
cbor_head(major, x) ==
    Only({ IF Len(b) = 0 THEN <<major * 32>>
           ELSE IF Len(b) = 1 /\ b[1] < 24 THEN <<major * 32 + b[1]>>
           ELSE IF Len(b) = 1 THEN <<major * 32 + 24>> \o b
           ELSE IF Len(b) = 2 THEN <<major * 32 + 25>> \o b
           ELSE IF Len(b) <= 4 THEN <<major * 32 + 26>> \o Zeros(4 - Len(b)) \o b
           ELSE <<major * 32 + 27>> \o Zeros(8 - Len(b)) \o b
         : b \in {be_bytes(x)} })

\* Plutus data: <<"int", u64>>, <<"bytes", bytes>>, <<"list", items>> and
\* <<"constr", variant, fields>>
PInt(x) == <<"int", x>>
PBytes(b) == <<"bytes", b>>
PList(items) == <<"list", items>>
PConstr(variant, fields) == <<"constr", variant, fields>>

CborBreak == 255
CborIndefiniteArray == 159
CborEmptyArray == 128

\* minicbor::encode of Plutus data: integers and byte strings with a
\* definite head, a variant as tag 121 + index, a non-empty array of
\* fields or items between 0x9f and 0xff, an empty one as 0x80
RECURSIVE cbor(_)
RECURSIVE cbor_all(_)
cbor_array(items) ==
    IF items = <<>> THEN <<CborEmptyArray>>
    ELSE <<CborIndefiniteArray>> \o cbor_all(items) \o <<CborBreak>>
cbor_all(items) ==
    IF items = <<>> THEN <<>>
    ELSE cbor(Head(items)) \o cbor_all(Tail(items))
cbor(data) ==
    CASE data[1] = "int"    -> cbor_head(0, data[2])
      [] data[1] = "bytes"  -> cbor_head(2, Wide(Len(data[2]))) \o data[2]
      [] data[1] = "list"   -> cbor_array(data[2])
      [] data[1] = "constr" -> cbor_head(6, Wide(121 + data[2])) \o cbor_array(data[3])

\* mutant: both booleans are the first variant
bool_to_plutus_first(b) == PConstr(0, <<>>)

\* the derived to_plutus of every type a StrategyExecution is made of
bool_to_plutus(b) == PConstr(IF b THEN 1 ELSE 0, <<>>)

bound_type_to_plutus(t) ==
    CASE t[1] = "NegativeInfinity" -> PConstr(0, <<>>)
      [] t[1] = "Finite"           -> PConstr(1, <<PInt(t[2])>>)
      [] t[1] = "PositiveInfinity" -> PConstr(2, <<>>)

bound_to_plutus(b) ==
    PConstr(0, <<bound_type_to_plutus(b.bound_type), bool_to_plutus(b.is_inclusive)>>)

interval_to_plutus(i) ==
    PConstr(0, <<bound_to_plutus(i.lower_bound), bound_to_plutus(i.upper_bound)>>)

singleton_to_plutus(v) == PList(<<PBytes(v[1]), PBytes(v[2]), PInt(v[3])>>)

order_to_plutus(o) ==
    CASE o[1] = "Strategy" -> PConstr(0, <<PConstr(0, <<PBytes(o[2])>>)>>)
      [] o[1] = "Swap"     -> PConstr(1, <<singleton_to_plutus(o[2]),
                                           singleton_to_plutus(o[3])>>)

reference_to_plutus(r) ==
    PConstr(0, <<PConstr(0, <<PBytes(r.transaction_id)>>), PInt(r.output_index)>>)

to_plutus(execution) ==
    PConstr(0, <<reference_to_plutus(execution.tx_ref),
                 interval_to_plutus(execution.validity_range),
                 order_to_plutus(execution.details),
                 PBytes(execution.extensions)>>)

serialize(execution) == cbor(to_plutus(execution))

\* reading: every step answers <<ok, what was read, the bytes left>>
Unreadable == <<FALSE, <<>>, <<>>>>

\* the argument of a head byte: in the byte, or in the 1, 2, 4 or 8 bytes
\* that follow
read_argument(bytes) ==
    Only({ IF info < 24 THEN <<TRUE, Wide(info), Tail(bytes)>>
           ELSE IF info \in 24..27
           THEN Only({ IF Len(bytes) < 1 + n THEN Unreadable
                       ELSE <<TRUE, from_be_bytes(SubSeq(bytes, 2, 1 + n)),
                              SubSeq(bytes, 2 + n, Len(bytes))>>
                     : n \in {CASE info = 24 -> 1 [] info = 25 -> 2
                                [] info = 26 -> 4 [] info = 27 -> 8} })
           ELSE Unreadable
         : info \in {bytes[1] % 32} })

Small(x) == x[2] = 0 /\ x[3] = 0 /\ x[4] = 0

\* minicbor::decode into Plutus data
RECURSIVE read_data(_)
RECURSIVE read_until_break(_, _)
RECURSIVE read_items(_, _, _)
read_array(bytes) ==
    IF bytes = <<>> \/ bytes[1] \div 32 # 4 THEN Unreadable
    ELSE IF bytes[1] = CborIndefiniteArray THEN read_until_break(Tail(bytes), <<>>)
    ELSE Only({ IF a[1] /\ Small(a[2]) THEN read_items(a[3], a[2][1], <<>>)
                ELSE Unreadable
              : a \in {read_argument(bytes)} })
read_until_break(bytes, items) ==
    IF bytes = <<>> THEN Unreadable
    ELSE IF bytes[1] = CborBreak THEN <<TRUE, items, Tail(bytes)>>
    ELSE Only({ IF r[1] THEN read_until_break(r[3], Append(items, r[2]))
                ELSE Unreadable
              : r \in {read_data(bytes)} })
read_items(bytes, n, items) ==
    IF n = 0 THEN <<TRUE, items, bytes>>
    ELSE Only({ IF r[1] THEN read_items(r[3], n - 1, Append(items, r[2]))
                ELSE Unreadable
              : r \in {read_data(bytes)} })
read_data(bytes) ==
    IF bytes = <<>> THEN Unreadable
    ELSE Only({
        IF ~a[1] THEN Unreadable
        ELSE CASE bytes[1] \div 32 = 0 -> <<TRUE, PInt(a[2]), a[3]>>
               [] bytes[1] \div 32 = 2 ->
                    IF Small(a[2]) /\ a[2][1] <= Len(a[3])
                    THEN <<TRUE, PBytes(SubSeq(a[3], 1, a[2][1])),
                           SubSeq(a[3], a[2][1] + 1, Len(a[3]))>>
                    ELSE Unreadable
               [] bytes[1] \div 32 = 4 ->
                    Only({ IF r[1] THEN <<TRUE, PList(r[2]), r[3]>> ELSE Unreadable
                         : r \in {read_array(bytes)} })
               [] bytes[1] \div 32 = 6 ->
                    IF Small(a[2]) /\ a[2][1] \in 121..127
                    THEN Only({ IF r[1] THEN <<TRUE, PConstr(a[2][1] - 121, r[2]), r[3]>>
                                ELSE Unreadable
                              : r \in {read_array(a[3])} })
                    ELSE Unreadable
               [] OTHER -> Unreadable
      : a \in {IF bytes[1] = CborIndefiniteArray THEN <<TRUE, Wide(0), Tail(bytes)>>
               ELSE read_argument(bytes)} })

\* the derived from_plutus: which data spell a value of each type
IsConstr(d, variant, n) == d[1] = "constr" /\ d[2] = variant /\ Len(d[3]) = n
IsBytes(d) == d[1] = "bytes"
IsInt(d) == d[1] = "int"

IsBool(d) == IsConstr(d, 0, 0) \/ IsConstr(d, 1, 0)
bool_from_plutus(d) == d[2] = 1

IsBoundType(d) ==
    \/ IsConstr(d, 0, 0)
    \/ IsConstr(d, 1, 1) /\ IsInt(d[3][1])
    \/ IsConstr(d, 2, 0)
bound_type_from_plutus(d) ==
    CASE d[2] = 0 -> <<"NegativeInfinity">>
      [] d[2] = 1 -> <<"Finite", d[3][1][2]>>
      [] d[2] = 2 -> <<"PositiveInfinity">>

IsBound(d) == IsConstr(d, 0, 2) /\ IsBoundType(d[3][1]) /\ IsBool(d[3][2])
bound_from_plutus(d) ==
    [bound_type |-> bound_type_from_plutus(d[3][1]),
     is_inclusive |-> bool_from_plutus(d[3][2])]

IsInterval(d) == IsConstr(d, 0, 2) /\ IsBound(d[3][1]) /\ IsBound(d[3][2])
interval_from_plutus(d) ==
    [lower_bound |-> bound_from_plutus(d[3][1]),
     upper_bound |-> bound_from_plutus(d[3][2])]

IsSingleton(d) ==
    /\ d[1] = "list" /\ Len(d[2]) = 3
    /\ IsBytes(d[2][1]) /\ IsBytes(d[2][2]) /\ IsInt(d[2][3])
singleton_from_plutus(d) == <<d[2][1][2], d[2][2][2], d[2][3][2]>>

IsOrder(d) ==
    \/ IsConstr(d, 0, 1) /\ IsConstr(d[3][1], 0, 1) /\ IsBytes(d[3][1][3][1])
    \/ IsConstr(d, 1, 2) /\ IsSingleton(d[3][1]) /\ IsSingleton(d[3][2])
order_from_plutus(d) ==
    IF d[2] = 0 THEN <<"Strategy", d[3][1][3][1][2]>>
    ELSE <<"Swap", singleton_from_plutus(d[3][1]), singleton_from_plutus(d[3][2])>>

IsReference(d) ==
    /\ IsConstr(d, 0, 2)
    /\ IsConstr(d[3][1], 0, 1) /\ IsBytes(d[3][1][3][1])
    /\ IsInt(d[3][2])
reference_from_plutus(d) ==
    [transaction_id |-> d[3][1][3][1][2], output_index |-> d[3][2][2]]

IsExecution(d) ==
    /\ IsConstr(d, 0, 4)
    /\ IsReference(d[3][1]) /\ IsInterval(d[3][2])
    /\ IsOrder(d[3][3]) /\ IsBytes(d[3][4])
from_plutus(d) ==
    IF IsExecution(d)
    THEN Some([tx_ref |-> reference_from_plutus(d[3][1]),
               validity_range |-> interval_from_plutus(d[3][2]),
               details |-> order_from_plutus(d[3][3]),
               extensions |-> d[3][4][2]])
    ELSE None

\* try_parse: the bytes are read as one item of Plutus data (bytes after
\* it are not looked at), the data as a StrategyExecution
try_parse(bytes) ==
    Only({ IF r[1] THEN from_plutus(r[2]) ELSE None : r \in {read_data(bytes)} })

\* the values of test_strategy_serialization
\* da432ef16b7aa9b3972bdd42f86e6605c14444e75678f4e6fd75baa01168086f
GoldenTransactionId ==
    <<218, 67, 46, 241, 107, 122, 169, 179, 151, 43, 221, 66, 248, 110,
      102, 5, 193, 68, 68, 231, 86, 120, 244, 230, 253, 117, 186, 160, 17,
      104, 8, 111>>
\* 99b071ce8580d6a3a11b4902145adb8bfd0d2a03935af8cf66403e15
SberryPolicy ==
    <<153, 176, 113, 206, 133, 128, 214, 163, 161, 27, 73, 2, 20, 90, 219,
      139, 253, 13, 42, 3, 147, 90, 248, 207, 102, 64, 62, 21>>
\* 534245525259, "SBERRY"
SberryName == <<83, 66, 69, 82, 82, 89>>
\* 1752270497000 and 1752272897000
GoldenLower == <<497000, 752270, 1, 0>>
GoldenUpper == <<897000, 752272, 1, 0>>
\* 10000000
GoldenOffer == <<0, 10, 0, 0>>

inclusive(bound_type) == [bound_type |-> bound_type, is_inclusive |-> TRUE]

GoldenExecution ==
    [tx_ref |-> [transaction_id |-> GoldenTransactionId, output_index |-> Wide(0)],
     validity_range |-> [lower_bound |-> inclusive(<<"Finite", GoldenLower>>),
                         upper_bound |-> inclusive(<<"Finite", GoldenUpper>>)],
     details |-> <<"Swap", <<<<>>, <<>>, GoldenOffer>>,
                   <<SberryPolicy, SberryName, Wide(1)>>>>,
     extensions |-> <<>>]

\* d8799fd8799fd8799f5820da432ef16b7aa9b3972bdd42f86e6605c14444e75678f4e6
\* fd75baa01168086fff00ffd8799fd8799fd87a9f1b00000197fb75e4e8ffd87a80ffd8
\* 799fd87a9f1b00000197fb9a83e8ffd87a80ffffd87a9f9f40401a00989680ff9f581c
\* 99b071ce8580d6a3a11b4902145adb8bfd0d2a03935af8cf66403e1546534245525259
\* 01ffff40ff
expected_bytes ==
    <<216, 121, 159, 216, 121, 159, 216, 121, 159, 88, 32, 218, 67, 46,
      241, 107, 122, 169, 179, 151, 43, 221, 66, 248, 110, 102, 5, 193, 68,
      68, 231, 86, 120, 244, 230, 253, 117, 186, 160, 17, 104, 8, 111, 255,
      0, 255, 216, 121, 159, 216, 121, 159, 216, 122, 159, 27, 0, 0, 1, 151,
      251, 117, 228, 232, 255, 216, 122, 128, 255, 216, 121, 159, 216, 122,
      159, 27, 0, 0, 1, 151, 251, 154, 131, 232, 255, 216, 122, 128, 255,
      255, 216, 122, 159, 159, 64, 64, 26, 0, 152, 150, 128, 255, 159, 88,
      28, 153, 176, 113, 206, 133, 128, 214, 163, 161, 27, 73, 2, 20, 90,
      219, 139, 253, 13, 42, 3, 147, 90, 248, 207, 102, 64, 62, 21, 70, 83,
      66, 69, 82, 82, 89, 1, 255, 255, 64, 255>>

\* the instructions encoded: the one of the test and others around it, with
\* numbers on both sides of every head width
CodecNumbers == {Wide(0), Wide(23), Wide(24), Wide(255), Wide(256),
                 <<65535, 0, 0, 0>>, <<65536, 0, 0, 0>>,
                 <<967295, 4294, 0, 0>>, <<967296, 4294, 0, 0>>,
                 GoldenLower, U64_MAX}
CodecBytes == {<<>>, <<0>>, SberryName, Zeros(23) , Zeros(24), GoldenTransactionId}
CodecBounds ==
    {[bound_type |-> t, is_inclusive |-> b] :
        t \in {<<"NegativeInfinity">>, <<"PositiveInfinity">>,
               <<"Finite", GoldenLower>>, <<"Finite", GoldenUpper>>},
        b \in BOOLEAN}
CodecOrders ==
    {GoldenExecution.details, <<"Strategy", SberryPolicy>>, <<"Strategy", <<>>>>,
     <<"Swap", <<SberryPolicy, SberryName, U64_MAX>>, <<<<>>, <<>>, Wide(0)>>>>}
CodecExecutions ==
    {GoldenExecution}
    \cup {[GoldenExecution EXCEPT !.tx_ref = [transaction_id |-> t, output_index |-> n]] :
            t \in CodecBytes, n \in CodecNumbers}
    \cup {[GoldenExecution EXCEPT !.validity_range = [lower_bound |-> l, upper_bound |-> u],
                                  !.details = o, !.extensions = e] :
            l \in CodecBounds, u \in CodecBounds, o \in CodecOrders,
            e \in {<<>>, SberryName}}

CodecInputs == {[op |-> "input", execution |-> e] : e \in CodecExecutions}

InitCodec == PureInit(CodecInputs)

Serialize ==
    /\ last.op = "input"
    /\ last' = [op |-> "serialized", execution |-> last.execution,
                bytes |-> serialize(last.execution)]
    /\ UNCHANGED <<public_keys, config, managed_orders, inflight, live,
                   overlapped, events, worker_state>>

Parse ==
    /\ last.op = "serialized"
    /\ last' = [op |-> "parsed", execution |-> last.execution,
                bytes |-> last.bytes, result |-> try_parse(last.bytes)]
    /\ UNCHANGED <<public_keys, config, managed_orders, inflight, live,
                   overlapped, events, worker_state>>

NextCodec == Serialize \/ Parse

SpecCodec == InitCodec /\ [][NextCodec]_vars

\* C27: encoding then decoding a StrategyExecution returns the same
\* instruction, and the instruction of the test (target da432e...086f#0,
\* inclusive window [1752270497000, 1752272897000], offer 10000000 of the
\* native asset, minimum received 1 SBERRY, empty extensions) encodes to
\* the byte string the test expects
C27_LosslessAndGolden ==
    /\ last.op \in {"serialized", "parsed"} /\ last.execution = GoldenExecution
           => last.bytes = expected_bytes
    /\ last.op = "parsed" => last.result = Some(last.execution)

C27_Witness ==
    /\ last.op = "parsed"
    /\ last.execution = GoldenExecution
    /\ last.bytes = expected_bytes
    /\ last.result = Some(GoldenExecution)

-----------------------------------------------------------------------------
(* Several active orders in one snapshot, trailing-stop-loss worker *)

\* two order outputs that hold the position token, one bound to no pool
\* and one to P1
SiblingOrderUtxos ==
    {Utxo(OutputReference("T1", 0), 1, OwnedOrder(None),
          TxOutput(5, Holding(TokenX, 10))),
     Utxo(OutputReference("T1", 1), 1, OwnedOrder(Some("P1")),
          TxOutput(5, Holding(TokenX, 4)))}

\* pool P1 (ADA / X) at 100 and 120 ADA per X
SiblingPoolUtxos ==
    {PoolUtxo(OutputReference("T3", 0), 5, "P1", TokenX, 2, 2 + q, 1) :
        q \in {100, 120}}

SiblingTxInputs ==
    {{OutputReference(u.tx_hash, u.index)} : u \in SiblingOrderUtxos}

\* the store and the relay may fail for any one of the orders
NextTrailingSiblings ==
    \/ \E u \in SiblingOrderUtxos : HandleUtxo(u, TRUE, TRUE)
    \/ \E ins \in SiblingTxInputs : HandleTx(ins, TRUE, TRUE)
    \/ \E u \in SiblingPoolUtxos, f \in Faults : TrailingPoolState(u, TRUE, f)

SpecTrailingSiblings == InitTrailing /\ [][NextTrailingSiblings]_vars

\* the ledger entries with a position in the pool of the last snapshot
ActiveOrders ==
    SelectSeq(managed_orders,
              LAMBDA s : /\ is_correct_pool(last.pool_state, s.order,
                                            config.position_token,
                                            config.exit_token)
                         /\ asset_amount(s.utxo, config.position_token) > 0)

\* the k-th evaluation of the last snapshot met a failure: its submission
\* failed, or the stored peak was not read, or the new peak was not written
SubmissionFailed(e) == IsSome(e.exit) /\ is_err(Unwrap(e.exit).outcome)
PeakNotWritten(e) == kv_get(peak_price, e.output) # Some(e.peak)

\* C28: when the trailing-stop worker has read the custody list, the
\* invocation is acknowledged and every active order of the snapshot has
\* been evaluated, in ledger order, whatever failed for one of them: the
\* read or the write of its peak, or its submission
C28_LogsAndContinues ==
    last.op = "pool" /\ last.read =>
        /\ last.result = "ack"
        /\ Len(last.evals) = Len(ActiveOrders)
        /\ \A k \in 1..Len(ActiveOrders) :
              last.evals[k].output = ActiveOrders[k].output

\* a submission failed for the first of two active orders and the one
\* after it was evaluated, with an exit that was posted
C28_Witness ==
    /\ last.op = "pool" /\ last.result = "ack"
    /\ Len(ActiveOrders) = 2 /\ Len(last.evals) = 2
    /\ SubmissionFailed(last.evals[1])
    /\ IsSome(last.evals[2].exit)
    /\ ~is_err(Unwrap(last.evals[2].exit).outcome)

\* the same with the write of the first order's peak failing
C28_WriteFailed ==
    /\ last.op = "pool" /\ last.result = "ack"
    /\ Len(ActiveOrders) >= 2 /\ Len(last.evals) = Len(ActiveOrders)
    /\ PeakNotWritten(last.evals[1])
    /\ ~PeakNotWritten(last.evals[2])

-----------------------------------------------------------------------------
(* The stored peak against the price of the snapshot just processed *)

\* the peak stored for every order the last snapshot evaluated is at least
\* the price of that snapshot
StoredPeakCoversPrice ==
    \A k \in 1..Len(last.evals) :
        /\ IsSome(kv_get(peak_price, last.evals[k].output))
        /\ RLe(TrailingPrice, Unwrap(kv_get(peak_price, last.evals[k].output)))

\* C29: after a snapshot has been processed for an active order, also the
\* one that initializes the peak from a configured entry price, the peak
\* stored for the order is greater than or equal to the snapshot's price
C29_StoredPeakAtLeastPrice ==
    last.op = "pool" /\ last.read => StoredPeakCoversPrice

\* the property holds of every snapshot that found a stored peak, and of
\* the initializing snapshot when no entry price is configured
C29_HoldsOnceInitialized ==
    last.op = "pool" /\ last.read =>
        \A k \in 1..Len(last.evals) :
            IsSome(last.evals[k].stored) \/ ~IsSome(config.entry_price) =>
                RLe(TrailingPrice,
                    Unwrap(kv_get(peak_price, last.evals[k].output)))

-----------------------------------------------------------------------------
(* Sequential invocations with a store that never fails *)

NextReliable ==
    \/ \E u \in LedgerUtxos : HandleUtxo(u, TRUE, TRUE)
    \/ \E ins \in TxInputs : HandleTx(ins, TRUE, TRUE)

SpecReliable == Init /\ [][NextReliable]_vars

\* the references the custody ledger holds
LedgerRefs == {managed_orders[i].output : i \in DOMAIN managed_orders}

\* C30: with sequential invocations and no store failure, a reference is in
\* the custody ledger if and only if an owned sighting of it has been
\* processed and no transaction processed after that sighting lists it
\* among its inputs (the history `live`); right after a transaction has
\* been processed none of its inputs is in the ledger
C30_InLedgerIffSightedAndUnspent ==
    /\ LedgerRefs = live
    /\ last.op = "tx" => last.inputs \cap LedgerRefs = {}

\* a transaction removed an entry and left another one
C30_Witness ==
    /\ last.op = "tx" /\ last.result = "ack" /\ last.removed >= 1
    /\ LedgerRefs # {} /\ LedgerRefs = live
    /\ last.inputs \cap live = {}

-----------------------------------------------------------------------------
(* The three workers side by side: sightings, spending transactions and    *)
(* pool snapshots, one invocation at a time, nothing failing               *)

InitVariants ==
    /\ public_keys = Some("K1")
    /\ config \in StopLossConfigs \cup TrailingConfigs \cup GridConfigs
    /\ LedgerInit

NextVariantsStopLoss ==
    /\ config.worker = "stop-loss"
    /\ \/ \E u \in StopLossOrderUtxos : HandleUtxo(u, TRUE, TRUE)
       \/ \E u \in StopLossOrderUtxos :
             HandleTx({OutputReference(u.tx_hash, u.index)}, TRUE, TRUE)
       \/ \E u \in StopLossPoolUtxos : StopLossPoolState(u, TRUE, NoFailures)

NextVariantsTrailing ==
    /\ config.worker = "trailing-stop-loss"
    /\ \/ \E u \in TrailingOrderUtxos : HandleUtxo(u, TRUE, TRUE)
       \/ \E ins \in TrailingTxInputs : HandleTx(ins, TRUE, TRUE)
       \/ \E u \in TrailingPoolUtxos : TrailingPoolState(u, TRUE, NoFault)

NextVariantsGrid ==
    /\ config.worker = "symmetrical-grid"
    /\ \/ \E u \in GridFundedUtxos : HandleUtxo(u, TRUE, TRUE)
       \/ \E u \in GridFundedUtxos :
             HandleTx({OutputReference(u.tx_hash, u.index)}, TRUE, TRUE)
       \/ \E u \in GridPoolUtxos : GridPoolState(u, TRUE, NoFault)

NextVariants ==
    NextVariantsStopLoss \/ NextVariantsTrailing \/ NextVariantsGrid

SpecVariants == InitVariants /\ [][NextVariants]_vars

\* C31: whatever the worker, every instruction of a pool-snapshot
\* invocation targets an entry of the custody list the invocation read, and
\* so an output that was sighted as owned and that no transaction processed
\* since has spent (the history `live`): once the spending transaction has
\* been processed no snapshot targets the output, unless it is sighted again
C31_TargetsAreInCustody ==
    last.op = "pool" =>
        \A s \in Submissions :
            /\ s.tx_ref \in live
            /\ s.tx_ref \in OutputsOf(managed_orders)

\* the trailing-stop order T1#0 was evaluated once (its peak is stored) and
\* has been spent since; a snapshot priced below its trigger is processed
\* and nothing is submitted
C31_Witness ==
    /\ last.op = "pool" /\ last.result = "ack"
    /\ config.worker = "trailing-stop-loss"
    /\ \E ref \in DOMAIN peak_price \ live :
          RLt(TrailingPrice,
              RMul(peak_price[ref], ROneMinus(config.trail_percent)))
    /\ Submissions = {}

-----------------------------------------------------------------------------
(* Repeated snapshots under the trigger: stop-loss and trailing-stop-loss *)

\* the snapshot concerns the ledger entry and its price meets the worker's
\* trigger condition; for the trailing stop the peak is the one stored for
\* the entry before the snapshot, raised to the snapshot's price
StopLossDue(entry, pool_state) ==
    /\ is_correct_pool(pool_state, entry.order, config.token_a, config.token_b)
    /\ RLt(price(pool_state, config.token_a_decimals, config.token_b_decimals),
           config.execution_price)

TrailingDue(entry, pool_state, peaks) ==
    /\ is_correct_pool(pool_state, entry.order, config.position_token,
                       config.exit_token)
    /\ asset_amount(entry.utxo, config.position_token) > 0
    /\ entry.output \in DOMAIN peaks
    /\ RLt(get_position_price(pool_state, config.position_token),
           RMul(RMax(peaks[entry.output],
                     get_position_price(pool_state, config.position_token)),
                ROneMinus(config.trail_percent)))

\* the token and amount an instruction of the worker offers for the entry
OfferFor(entry) ==
    IF config.worker = "stop-loss"
    THEN <<config.sell_token.policy_id, config.sell_token.asset_name,
           asset_amount(entry.utxo, config.sell_token)>>
    ELSE <<config.position_token.policy_id, config.position_token.asset_name,
           asset_amount(entry.utxo, config.position_token)>>

\* the step is a pool snapshot of the stop-loss or the trailing-stop worker
\* and it emits an instruction for every ledger entry that is due
EmitsForEveryDueEntry ==
    last'.op = "pool" /\ config.worker \in {"stop-loss", "trailing-stop-loss"} =>
        \A i \in DOMAIN managed_orders :
            (IF config.worker = "stop-loss"
             THEN StopLossDue(managed_orders[i], last'.pool_state)
             ELSE TrailingDue(managed_orders[i], last'.pool_state, peak_price))
            => \E s \in Submissions' :
                  /\ s.tx_ref = managed_orders[i].output
                  /\ s.offer = OfferFor(managed_orders[i])

\* the step is a pool snapshot that emits nothing for an entry for which the
\* snapshot before emitted: the entry is not due any more
StopsOnlyWhenNotDue ==
    last.op = "pool" /\ last'.op = "pool"
    /\ config.worker \in {"stop-loss", "trailing-stop-loss"} =>
        \A i \in DOMAIN managed_orders :
            /\ \E s \in Submissions : s.tx_ref = managed_orders[i].output
            /\ ~ \E s \in Submissions' : s.tx_ref = managed_orders[i].output
            => ~ (IF config.worker = "stop-loss"
                  THEN StopLossDue(managed_orders[i], last'.pool_state)
                  ELSE TrailingDue(managed_orders[i], last'.pool_state,
                                   peak_price))

C32_EmittedTwice ==
    /\ last.op = "pool" /\ last'.op = "pool"
    /\ \E s \in Submissions : \E t \in Submissions' :
          s.tx_ref = t.tx_ref /\ s.offer = t.offer

C32_NeverTwice == [][~C32_EmittedTwice]_vars

-----------------------------------------------------------------------------
(* submit_execution step by step: the host calls it makes, in order *)

HexDigits == <<"0", "1", "2", "3", "4", "5", "6", "7",
               "8", "9", "a", "b", "c", "d", "e", "f">>

\* hex::encode: two lower-case digits per byte
hex_encode(bytes) ==
    [i \in 1..(2 * Len(bytes)) |->
        IF i % 2 = 1 THEN HexDigits[(bytes[(i + 1) \div 2] \div 16) + 1]
        ELSE HexDigits[(bytes[i \div 2] % 16) + 1]]

relay_url(network) ==
    IF network = "preview" THEN "http://sse-relay.preview.sundae.fi/publish"
    ELSE "http://sse-relay.sundae.fi/publish"

\* the derived to_plutus of SignedStrategyExecution; the signature is an
\* Option
signed_to_plutus(execution, signature) ==
    PConstr(0, <<to_plutus(execution),
                 IF IsSome(signature)
                 THEN PConstr(0, <<PBytes(Unwrap(signature))>>)
                 ELSE PConstr(1, <<>>)>>)

\* the SubmitSSE posted for a signed execution
SubmitSSE(utxo, execution, signature) ==
    [tx_hash |-> hex_encode(utxo.transaction_id),
     tx_index |-> utxo.output_index,
     data |-> hex_encode(cbor(signed_to_plutus(execution, Some(signature))))]

\* mutant: the error of sign_payload is dropped
after_sign_payload_unchecked(outcome) == "post"

\* `?` on sign_payload: an error returns at once
after_sign_payload(outcome) ==
    IF outcome = "sign_error" THEN "returned" ELSE "post"

\* calls of submit_execution: a target, the swap wrapped in an execution for
\* that target, what the host will answer
SubmitTargets ==
    {[transaction_id |-> t, output_index |-> n] :
        t \in {GoldenTransactionId, SberryPolicy, <<0>>},
        n \in {Wide(0), Wide(1), Wide(24), U64_MAX}}
SubmitSignatures == {<<7>>, Zeros(24)}
SubmitInputs ==
    {[op |-> "called", network |-> net, utxo |-> u,
      execution |-> [GoldenExecution EXCEPT !.tx_ref = u, !.details = o],
      outcome |-> out, signature |-> sig, calls |-> <<>>] :
        net \in Networks, u \in SubmitTargets, o \in CodecOrders,
        out \in {"ok", "sign_error", "relay_error"},
        sig \in SubmitSignatures}

InitSubmit == PureInit(SubmitInputs)

\* serialize the execution and ask the host for a signature over the bytes
SignPayload ==
    /\ last.op = "called"
    /\ last' = [last EXCEPT
            !.op = after_sign_payload(last.outcome),
            !.calls = <<[host |-> "sign_payload", key |-> "default",
                         payload |-> serialize(last.execution),
                         failed |-> last.outcome = "sign_error"]>>]
    /\ UNCHANGED <<public_keys, config, managed_orders, inflight, live,
                   overlapped, events, worker_state>>

\* wrap execution and signature, post them to the relay, return what send()
\* returns
PostToRelay ==
    /\ last.op = "post"
    /\ last' = [last EXCEPT
            !.op = "returned",
            !.calls = Append(last.calls,
                [host |-> "http_post", url |-> relay_url(last.network),
                 body |-> SubmitSSE(last.utxo, last.execution, last.signature),
                 failed |-> last.outcome = "relay_error"])]
    /\ UNCHANGED <<public_keys, config, managed_orders, inflight, live,
                   overlapped, events, worker_state>>

NextSubmit == SignPayload \/ PostToRelay

SpecSubmit == InitSubmit /\ [][NextSubmit]_vars

\* the positions of the relay requests among the host calls made so far
RelayRequests == {i \in DOMAIN last.calls : last.calls[i].host = "http_post"}

\* C33: in every call of submit_execution the signature over the encoded
\* instruction is requested before the relay request is made, no relay
\* request is made when signing fails, the posted tx_hash and tx_index are
\* those of the target output, and at most one relay request is made
C33_SignThenPostOnce ==
    /\ Cardinality(RelayRequests) <= 1
    /\ \A i \in RelayRequests :
          /\ i = 2
          /\ last.calls[1].host = "sign_payload"
          /\ last.calls[1].payload = serialize(last.execution)
          /\ ~last.calls[1].failed
          /\ last.calls[i].body.tx_hash = hex_encode(last.utxo.transaction_id)
          /\ last.calls[i].body.tx_index = last.utxo.output_index
          /\ last.execution.tx_ref = last.utxo
    /\ last.op = "returned" =>
          /\ last.calls # <<>>
          /\ last.calls[1].failed => RelayRequests = {}
          /\ last.calls[Len(last.calls)].failed \/ RelayRequests # {}

\* the instruction of the codec test was signed and posted under the hash
\* da432e...086f and index 0
C33_Witness ==
    /\ last.op = "returned" /\ last.outcome = "ok"
    /\ last.execution = GoldenExecution
    /\ Len(last.calls) = 2
    /\ last.calls[1].payload = expected_bytes
    /\ SubSeq(last.calls[2].body.tx_hash, 1, 6) = <<"d", "a", "4", "3", "2", "e">>
    /\ Len(last.calls[2].body.tx_hash) = 64
    /\ last.calls[2].body.tx_index = Wide(0)

\* signing failed and the call returned after the one host call
C33_SigningFailed ==
    /\ last.op = "returned" /\ last.outcome = "sign_error"
    /\ Len(last.calls) = 1

-----------------------------------------------------------------------------
(* compute_crossed_prices over the lines of compute_grid_prices *)

\* two grids around the center 1: three lines a side 5% apart, two lines a
\* side 10% apart
CrossGrids ==
    {[center_price |-> <<1, 1>>, spacing_percent |-> <<1, 20>>,
      levels_per_side |-> 3],
     [center_price |-> <<1, 1>>, spacing_percent |-> <<1, 10>>,
      levels_per_side |-> 2]}

\* prices on every line of the two grids, between the lines, at the center
\* and beyond the outermost lines
CrossPrices ==
    {<<1, 2>>, <<8000, 9261>>, <<9, 10>>, <<400, 441>>, <<20, 21>>, <<1, 1>>,
     <<21, 20>>, <<11, 10>>, <<441, 400>>, <<23, 20>>, <<9261, 8000>>,
     <<2, 1>>, <<100, 121>>, <<10, 11>>, <<121, 100>>, <<0, 1>>}

CrossInputs ==
    {[op |-> "input", grid |-> g, previous_offset |-> o, price |-> p] :
        g \in CrossGrids, o \in 0..6, p \in CrossPrices}

InitCross ==
    PureInit({i \in CrossInputs :
                 i.previous_offset <= 2 * i.grid.levels_per_side})

ApplyCross ==
    /\ last.op = "input"
    /\ \E grid_prices \in {compute_grid_prices(last.grid.center_price,
                                                last.grid.spacing_percent,
                                                last.grid.levels_per_side)} :
          last' = [op |-> "crossed", grid |-> last.grid,
                   previous_offset |-> last.previous_offset,
                   price |-> last.price,
                   grid_prices |-> grid_prices,
                   result |-> compute_crossed_prices(grid_prices,
                                  last.previous_offset, last.price)]
    /\ UNCHANGED <<public_keys, config, managed_orders, inflight, live,
                   overlapped, events, worker_state>>

NextCross == ApplyCross

SpecCross == InitCross /\ [][NextCross]_vars

\* the lines strictly below the price
LinesBelow == {n \in DOMAIN last.grid_prices : RLt(last.grid_prices[n], last.price)}

\* C34: the lines are 2 * levels_per_side prices in ascending order; the
\* new offset is the number of lines strictly below the price, a line equal
\* to the price not counted; the crossed lines are the lines between the
\* stored and the new offset, ascending for a rise, descending for a fall,
\* none when the offsets are equal
C34_CountsLinesStrictlyBelow ==
    last.op = "crossed" =>
        LET lines == last.grid_prices
            old == last.previous_offset
            new == last.result.new_offset
            crossed == last.result.prices
        IN  /\ Len(lines) = 2 * last.grid.levels_per_side
            /\ \A n \in 1..(Len(lines) - 1) : RLt(lines[n], lines[n + 1])
            /\ new = Cardinality(LinesBelow)
            /\ \A n \in DOMAIN lines : REq(lines[n], last.price) => n > new
            /\ new > old => crossed = [i \in 1..(new - old) |-> lines[old + i]]
            /\ new < old => crossed = [i \in 1..(old - new) |-> lines[old + 1 - i]]
            /\ new = old => crossed = <<>>

\* the price fell onto the second line from an offset of four: the line at
\* the price is not counted, and lines 4, 3 and 2 are crossed, in that order
C34_Witness ==
    /\ last.op = "crossed"
    /\ REq(last.grid_prices[2], last.price)
    /\ last.previous_offset = 4
    /\ last.result.new_offset = 1
    /\ last.result.prices = <<last.grid_prices[4], last.grid_prices[3],
                              last.grid_prices[2]>>

-----------------------------------------------------------------------------
(* The symmetrical-grid worker with a position funded on one side only *)

\* an order output holding 100 of the base token and none of the strategy
\* token, and one holding 100 of the strategy token and none of the base
\* token
GridOneSidedUtxos ==
    {Utxo(OutputReference("T1", 0), 1, OwnedOrder(None), TxOutput(100, <<>>)),
     Utxo(OutputReference("T2", 0), 2, OwnedOrder(None),
          TxOutput(0, Holding(TokenX, 100)))}

\* nothing fails
NextGridOneSided ==
    \/ \E u \in GridOneSidedUtxos : HandleUtxo(u, TRUE, TRUE)
    \/ \E u \in GridOneSidedUtxos :
          HandleTx({OutputReference(u.tx_hash, u.index)}, TRUE, TRUE)
    \/ \E u \in GridPoolUtxos : GridPoolState(u, TRUE, NoFault)

SpecGridOneSided == InitGrid /\ [][NextGridOneSided]_vars

\* what the grid of an evaluation was built from
GridBasis(ev) ==
    <<ev.grid_state.center_price, ev.grid_state.init_strat,
      ev.grid_state.init_base>>

\* C35: the grid is static: from the first snapshot observed for a position
\* on, the center price and the initial amounts its grid is built from are
\* the same at every later snapshot, whether or not a line is crossed, and
\* no grid state is ever deleted
C35_GridIsStatic ==
    [][/\ DOMAIN grid_state \subseteq DOMAIN grid_state'
       /\ last.op = "pool" /\ last'.op = "pool" =>
             \A i \in DOMAIN last.evals : \A j \in DOMAIN last'.evals :
                 last.evals[i].output = last'.evals[j].output =>
                     GridBasis(last.evals[i]) = GridBasis(last'.evals[j])]_vars

\* what does hold: a grid state, once stored, keeps its center price and its
\* initial amounts and is never deleted
C35_StoredStateIsStatic ==
    [][\A key \in DOMAIN grid_state :
          /\ key \in DOMAIN grid_state'
          /\ grid_state'[key].center_price = grid_state[key].center_price
          /\ grid_state'[key].init_strat = grid_state[key].init_strat
          /\ grid_state'[key].init_base = grid_state[key].init_base]_vars

-----------------------------------------------------------------------------
(* The bounds of the persisted offset *)

\* the slice compute_crossed_prices takes for an evaluation lies within the
\* lines of the grid
SliceWithinGrid(ev) ==
    /\ ev.grid_state.line_offset \in 0..(2 * config.levels_per_side)
    /\ ev.new_offset \in 0..(2 * config.levels_per_side)
    /\ Len(ev.crossed) <= 2 * config.levels_per_side

\* C36: in every reachable state every persisted offset lies between 0 and
\* 2 * levels_per_side, and the slice of crossed lines every evaluation
\* takes between the stored and the new offset is within the grid
C36_OffsetWithinGrid ==
    /\ \A key \in DOMAIN grid_state :
          /\ 0 <= grid_state[key].line_offset
          /\ grid_state[key].line_offset <= 2 * config.levels_per_side
    /\ last.op = "pool" => \A i \in DOMAIN last.evals : SliceWithinGrid(last.evals[i])

\* the persisted offset is at the upper bound after a rise beyond the last
\* line filled every line crossed
C36_Witness ==
    /\ last.op = "pool" /\ last.result = "ack"
    /\ \E i \in DOMAIN last.evals :
          /\ last.evals[i].filled >= 1
          /\ last.evals[i].new_offset = 2 * config.levels_per_side
          /\ grid_state[last.evals[i].key].line_offset
                = 2 * config.levels_per_side

\* and at the lower bound after a fall below the first line
C36_AtLowerBound ==
    /\ last.op = "pool" /\ last.result = "ack"
    /\ \E i \in DOMAIN last.evals :
          /\ last.evals[i].filled >= 1
          /\ last.evals[i].new_offset = 0
          /\ grid_state[last.evals[i].key].line_offset = 0

-----------------------------------------------------------------------------
(* Submission and persistence in the symmetrical-grid worker *)

SubmissionOf(ev) == Unwrap(ev.sent)

\* the store holds under the evaluation's key what the evaluation read
StateAsRead(ev) ==
    IF ev.found THEN kv_get(grid_state, ev.key) = Some(ev.grid_state)
    ELSE ev.key \notin DOMAIN grid_state

\* C37: the grid worker submits before it writes: when the submission for
\* an order fails the grid state stays as it was read and the invocation
\* fails; when the write was attempted the instruction had been handed
\* over; and the persisted offset differs from the offset read only after an
\* instruction was handed to the relay, by the number of lines it covers
C37_SubmitThenPersist ==
    last.op = "pool" /\ last.read =>
        /\ \A i \in DOMAIN last.evals :
              LET ev == last.evals[i]
              IN  /\ IsSome(ev.sent) /\ is_err(SubmissionOf(ev).outcome) =>
                        /\ last.result = "err"
                        /\ i = Len(last.evals)
                        /\ StateAsRead(ev)
                  /\ OffsetAfter(last.evals, i, grid_state)
                        # ev.grid_state.line_offset =>
                        /\ IsSome(ev.sent)
                        /\ SubmissionOf(ev).outcome = "ok"
                        /\ ev.filled >= 1
                        /\ OffsetAfter(last.evals, i, grid_state)
                              \in {ev.grid_state.line_offset + ev.filled,
                                   ev.grid_state.line_offset - ev.filled}
        /\ last.cause = "set" =>
              /\ last.evals # <<>>
              /\ IsSome(last.evals[Len(last.evals)].sent)
              /\ SubmissionOf(last.evals[Len(last.evals)]).outcome = "ok"
              /\ StateAsRead(last.evals[Len(last.evals)])

\* the relay refused the instruction for an order whose grid state was
\* stored before: the state is as it was and the invocation failed
C37_Witness ==
    /\ last.op = "pool" /\ last.result = "err"
    /\ last.evals # <<>>
    /\ LET ev == last.evals[Len(last.evals)]
       IN  /\ ev.found /\ IsSome(ev.sent)
           /\ SubmissionOf(ev).outcome = "relay_error"
           /\ ev.filled >= 1
           /\ grid_state[ev.key] = ev.grid_state

\* the instruction was handed over and the write failed
C37_WriteFailed ==
    /\ last.op = "pool" /\ last.result = "err" /\ last.cause = "set"
    /\ last.evals # <<>>
    /\ SubmissionOf(last.evals[Len(last.evals)]).outcome = "ok"

-----------------------------------------------------------------------------
(* Claims on the orientation of the trailing-stop price *)

\* trail 15%, slippage 3%, no entry price: a position in X that exits to ADA
\* (the pool's second asset) and a position in ADA that exits to X (the
\* pool's first asset)
OrientedConfigs ==
    {[worker |-> "trailing-stop-loss", position_token |-> t[1],
      exit_token |-> t[2], trail_percent |-> <<3, 20>>,
      slippage_tolerance |-> <<3, 100>>, entry_price |-> None] :
        t \in {<<TokenX, ADA>>, <<ADA, TokenX>>}}

\* two orders on the pair, one holding both tokens, one holding ADA only
OrientedOrderUtxos ==
    {Utxo(OutputReference("T1", 0), 1, OwnedOrder(None),
          TxOutput(30, Holding(TokenX, 10))),
     Utxo(OutputReference("T2", 0), 2, OwnedOrder(None),
          TxOutput(40, <<>>))}

\* pool P1 (ADA / X) with 10 X and, after fees, 0, 50, 100 and 200 ADA
OrientedPoolUtxos ==
    {PoolUtxo(OutputReference("T3", 0), 5, "P1", TokenX, 2, 2 + q, 10) :
        q \in {0, 50, 100, 200}}

OrientedTxInputs ==
    {{OutputReference(u.tx_hash, u.index)} : u \in OrientedOrderUtxos}

InitOriented ==
    /\ public_keys = Some("K1")
    /\ config \in OrientedConfigs
    /\ LedgerInit

\* the store and the relay never fail
NextOriented ==
    \/ \E u \in OrientedOrderUtxos : HandleUtxo(u, TRUE, TRUE)
    \/ \E ins \in OrientedTxInputs : HandleTx(ins, TRUE, TRUE)
    \/ \E u \in OrientedPoolUtxos : TrailingPoolState(u, TRUE, NoFault)

SpecOriented == InitOriented /\ [][NextOriented]_vars

\* what the pool holds of an asset: for ADA the balance less the protocol fees
ReserveOf(pool_state, asset) ==
    IF is_ada(asset)
    THEN pool_state.utxo.coin - pool_state.pool_datum.protocol_fees
    ELSE asset_amount(pool_state.utxo, asset)

\* exit token per one position token, from the reserves: 0 when the pool
\* holds nothing of its first asset
ExitPerPosition(pool_state) ==
    IF ReserveOf(pool_state, pool_state.pool_datum.assets[1]) = 0
    THEN <<0, 1>>
    ELSE <<ReserveOf(pool_state, config.exit_token),
           ReserveOf(pool_state, config.position_token)>>

\* the prices the snapshots can show, in the configured orientation
OrientedPrices ==
    {RNorm(ExitPerPosition(pool_state_of(u))) : u \in OrientedPoolUtxos}

\* C38: the position price is exit token per one position token (the raw
\* price a/b when the position token is the pool's second asset, its
\* reciprocal when it is the first, 0 when the raw price is 0), and the stored
\* peak, the trigger and the minimum received of an order are all in that
\* orientation: every stored peak is such a price, the trigger is the peak
\* less the trail, the minimum is the position amount at the trigger less the
\* slippage, in exit token.
C38_PriceIsExitPerPosition ==
    /\ \A r \in DOMAIN peak_price :
           \E p \in OrientedPrices : REq(peak_price[r], p)
    /\ (last.op = "pool" /\ last.read) =>
        /\ REq(TrailingPrice, ExitPerPosition(last.pool_state))
        /\ REq(TrailingPrice,
               IF config.position_token = last.pool_state.pool_datum.assets[2]
               THEN raw_price(last.pool_state.pool_datum, last.pool_state.utxo)
               ELSE IF raw_price(last.pool_state.pool_datum,
                                 last.pool_state.utxo)[1] = 0
               THEN <<0, 1>>
               ELSE RInv(raw_price(last.pool_state.pool_datum,
                                   last.pool_state.utxo)))
        /\ \A i \in DOMAIN last.evals :
               LET ev == last.evals[i]
                   held == asset_amount(
                               Only({s.utxo : s \in
                                       {managed_orders[k] :
                                          k \in {n \in DOMAIN managed_orders :
                                                   managed_orders[n].output
                                                       = ev.output}}}),
                               config.position_token)
               IN  /\ REq(ev.peak,
                          IF IsSome(ev.stored)
                          THEN RMax(Unwrap(ev.stored),
                                    ExitPerPosition(last.pool_state))
                          ELSE ExitPerPosition(last.pool_state))
                   /\ REq(ev.trigger,
                          RMul(ev.peak, ROneMinus(config.trail_percent)))
                   /\ IsSome(ev.exit) =>
                          /\ Unwrap(ev.exit).offer
                                 = <<config.position_token.policy_id,
                                     config.position_token.asset_name, held>>
                          /\ Unwrap(ev.exit).min_received[1]
                                 = config.exit_token.policy_id
                          /\ Unwrap(ev.exit).min_received[2]
                                 = config.exit_token.asset_name
                          /\ \E m \in {RFloor(RMul(RMul(RInt(held), ev.trigger),
                                         ROneMinus(config.slippage_tolerance)))} :
                                Unwrap(ev.exit).min_received[3]
                                    = IF m < 1 THEN 1 ELSE m

\* C38 witness: the position token is the pool's first asset, the price used
\* is the reciprocal of a raw price other than 1, and an exit was emitted
C38_Witness ==
    /\ last.op = "pool" /\ last.read
    /\ config.position_token = last.pool_state.pool_datum.assets[1]
    /\ ~REq(TrailingPrice,
            raw_price(last.pool_state.pool_datum, last.pool_state.utxo))
    /\ \E i \in DOMAIN last.evals : IsSome(last.evals[i].exit)

\* the position token is the pool's first asset and the raw price is 0: the
\* price used is 0
C38_ZeroRawPrice ==
    /\ last.op = "pool" /\ last.read /\ last.evals # <<>>
    /\ config.position_token = last.pool_state.pool_datum.assets[1]
    /\ raw_price(last.pool_state.pool_datum, last.pool_state.utxo)[1] = 0
    /\ TrailingPrice = <<0, 1>>

\* the position token is the pool's second asset and an exit was emitted
C38_SecondAsset ==
    /\ last.op = "pool" /\ last.read
    /\ config.position_token = last.pool_state.pool_datum.assets[2]
    /\ \E i \in DOMAIN last.evals : IsSome(last.evals[i].exit)

-----------------------------------------------------------------------------
(* config.rs of the trailing-stop-loss worker, and the claim on new highs *)

DEFAULT_SLIPPAGE_TOLERANCE == <<3, 100>>

\* mutant: the configuration is taken as written, nothing is validated
try_from_unvalidated(raw) ==
    Some([worker |-> "trailing-stop-loss",
          position_token |-> raw.position_token,
          exit_token |-> raw.exit_token,
          trail_percent |-> raw.trail_percent,
          slippage_tolerance |->
              IF IsSome(raw.slippage_tolerance)
              THEN Unwrap(raw.slippage_tolerance)
              ELSE DEFAULT_SLIPPAGE_TOLERANCE,
          entry_price |-> raw.entry_price])

\* TryFrom<ConfigRaw> for Config: None stands for Err
try_from(raw) ==
    LET slippage_tolerance ==
            IF IsSome(raw.slippage_tolerance)
            THEN Unwrap(raw.slippage_tolerance)
            ELSE DEFAULT_SLIPPAGE_TOLERANCE
    IN  IF RLe(raw.trail_percent, <<0, 1>>) THEN None
        ELSE IF RLe(<<1, 1>>, raw.trail_percent) THEN None
        ELSE IF RLe(slippage_tolerance, <<0, 1>>) THEN None
        ELSE IF RLe(<<1, 1>>, slippage_tolerance) THEN None
        ELSE IF /\ IsSome(raw.entry_price)
                /\ RLe(Unwrap(raw.entry_price), <<0, 1>>) THEN None
        ELSE IF raw.position_token = raw.exit_token THEN None
        ELSE Some([worker |-> "trailing-stop-loss",
                   position_token |-> raw.position_token,
                   exit_token |-> raw.exit_token,
                   trail_percent |-> raw.trail_percent,
                   slippage_tolerance |-> slippage_tolerance,
                   entry_price |-> raw.entry_price])

\* configurations as written by the user: trails of -10%, 0, 15%, 50% and
\* 100%, slippage left out or 3%, entry price left out, 0 or 100
RawConfigs ==
    {[position_token |-> TokenX, exit_token |-> ADA, trail_percent |-> t,
      slippage_tolerance |-> s, entry_price |-> e] :
        t \in {<<-1, 10>>, <<0, 1>>, <<3, 20>>, <<1, 2>>, <<1, 1>>},
        s \in {None, Some(<<3, 100>>)},
        e \in {None, Some(<<0, 1>>), Some(<<100, 1>>)}}

\* the worker starts only with a configuration that deserialized
InitValidated ==
    /\ public_keys = Some("K1")
    /\ config \in {Unwrap(try_from(raw)) :
                      raw \in {r \in RawConfigs : IsSome(try_from(r))}}
    /\ LedgerInit

\* pool P1 (ADA / X) at 0, 80, 100 and 120 ADA per X
ValidatedPoolUtxos ==
    {PoolUtxo(OutputReference("T3", 0), 5, "P1", TokenX, 2, 2 + q, 1) :
        q \in {0, 80, 100, 120}}

\* the store and the relay never fail
NextValidated ==
    \/ \E u \in TrailingOrderUtxos : HandleUtxo(u, TRUE, TRUE)
    \/ \E ins \in TrailingTxInputs : HandleTx(ins, TRUE, TRUE)
    \/ \E u \in ValidatedPoolUtxos : TrailingPoolState(u, TRUE, NoFault)

SpecValidated == InitValidated /\ [][NextValidated]_vars

\* the evaluation took the current pool price as the order's peak: nothing
\* was stored and no entry price is configured, or the stored peak was below
\* the price
AtNewHigh(ev) ==
    \/ ~IsSome(ev.stored) /\ ~IsSome(config.entry_price)
    \/ IsSome(ev.stored) /\ RLt(Unwrap(ev.stored), TrailingPrice)

\* C39: the validated trail_percent lies strictly between 0 and 1, and an
\* evaluation that initializes the peak from the current pool price or raises
\* the stored peak to the current price takes that price as the peak and
\* emits no exit instruction for the order.
C39_NoExitAtNewHigh ==
    /\ RLt(<<0, 1>>, config.trail_percent)
    /\ RLt(config.trail_percent, <<1, 1>>)
    /\ (last.op = "pool" /\ last.read) =>
           \A i \in DOMAIN last.evals :
               AtNewHigh(last.evals[i]) =>
                   /\ REq(last.evals[i].peak, TrailingPrice)
                   /\ ~IsSome(last.evals[i].exit)

\* C39 witness: a stored peak was raised to the current price and no exit
\* was emitted
C39_Witness ==
    /\ last.op = "pool" /\ last.read
    /\ \E i \in DOMAIN last.evals :
           /\ IsSome(last.evals[i].stored)
           /\ RLt(Unwrap(last.evals[i].stored), TrailingPrice)
           /\ ~IsSome(last.evals[i].exit)

\* the peak was initialized from the current price, and from a price of 0
C39_Initialized ==
    /\ last.op = "pool" /\ last.read
    /\ \E i \in DOMAIN last.evals :
           ~IsSome(last.evals[i].stored) /\ ~IsSome(config.entry_price)

C39_InitializedAtZero ==
    /\ C39_Initialized
    /\ TrailingPrice = <<0, 1>>

\* an exit is emitted at all: below a stored peak, or below a configured
\* entry price on the first evaluation
C39_ExitBelowPeak ==
    /\ last.op = "pool" /\ last.read
    /\ \E i \in DOMAIN last.evals :
           IsSome(last.evals[i].exit) /\ ~AtNewHigh(last.evals[i])

-----------------------------------------------------------------------------
(* types.rs: the native reserve of PoolDatum::raw_price *)

\* to_u64: a BigInt::Int that fits, None for a negative one
to_u64(big_int) == IF big_int < 0 THEN None ELSE Some(big_int)

\* `a - b` on u64: None stands for the panic of a build with overflow checks
\* (the dev profile), a build without them (the release profile) wraps
\* modulo 2^64
sub_u64(a, b, overflow_checks) ==
    IF b <= a THEN Some(Wide(a - b))
    ELSE IF overflow_checks THEN None
    ELSE Some(WSub(U64_MAX, Wide(b - a - 1)))

\* reserves_a of raw_price for a pool whose first asset is ADA: None stands
\* for a panic, of the subtraction or of the expect on to_u64
native_reserve(pool_datum, output, overflow_checks) ==
    IF ~IsSome(to_u64(pool_datum.protocol_fees)) THEN None
    ELSE sub_u64(output.coin, Unwrap(to_u64(pool_datum.protocol_fees)),
                 overflow_checks)

\* balances of 0 to 5 with recorded protocol fees of -1 to 6, 1 or 10 X
ReservePoolUtxos ==
    {PoolUtxo(OutputReference("T3", 0), 5, "P1", TokenX, f, c, x) :
        f \in (0 - 1)..6, c \in 0..5, x \in {1, 10}}

InitReserve ==
    PureInit({[op |-> "input", utxo |-> u] : u \in ReservePoolUtxos})

\* the extractor accepts the output and the price is computed, by a build
\* with or without overflow checks
ApplyReserve ==
    /\ last.op = "input"
    /\ is_pool_utxo(last.utxo)
    /\ \E overflow_checks \in BOOLEAN :
       \E pool_state \in {pool_state_of(last.utxo)} :
          last' = [op |-> "reserve", utxo |-> last.utxo,
                   pool_state |-> pool_state,
                   overflow_checks |-> overflow_checks,
                   reserves_a |-> native_reserve(pool_state.pool_datum,
                                                 pool_state.utxo,
                                                 overflow_checks)]
    /\ UNCHANGED <<public_keys, config, managed_orders, inflight, live,
                   overlapped, events, worker_state>>

NextReserve == ApplyReserve

SpecReserve == InitReserve /\ [][NextReserve]_vars

\* the recorded protocol fees are covered by the balance
FeesCovered(pool_state) ==
    /\ 0 <= pool_state.pool_datum.protocol_fees
    /\ pool_state.pool_datum.protocol_fees <= pool_state.utxo.coin

\* C40: for every pool output the extractor accepts, the native reserve is
\* computed without a panic and is the balance less the recorded protocol
\* fees, a quantity that is not negative.
C40_ReserveNeverUnderflows ==
    last.op = "reserve" =>
        /\ IsSome(last.reserves_a)
        /\ last.pool_state.pool_datum.protocol_fees
               <= last.pool_state.utxo.coin
        /\ Unwrap(last.reserves_a)
               = Wide(last.pool_state.utxo.coin
                          - last.pool_state.pool_datum.protocol_fees)

\* what holds of the code: when the fees are covered by the balance the
\* reserve is the balance less the fees, the numerator of the raw price,
\* whatever the build
C40_ReserveWhenFeesCovered ==
    (last.op = "reserve" /\ FeesCovered(last.pool_state)) =>
        /\ last.reserves_a
               = Some(Wide(last.pool_state.utxo.coin
                               - last.pool_state.pool_datum.protocol_fees))
        /\ REq(raw_price(last.pool_state.pool_datum, last.pool_state.utxo),
               <<Unwrap(last.reserves_a)[1],
                 asset_amount(last.pool_state.utxo, TokenX)>>)

\* the fees exceed the balance and the build checks overflow: the price
\* computation panics
C40_Panicked ==
    /\ last.op = "reserve" /\ last.overflow_checks
    /\ last.pool_state.pool_datum.protocol_fees > last.pool_state.utxo.coin
    /\ last.reserves_a = None

\* the fees exceed the balance by 1 and the build does not check overflow:
\* the reserve is u64::MAX
C40_Wrapped ==
    /\ last.op = "reserve" /\ ~last.overflow_checks
    /\ last.pool_state.pool_datum.protocol_fees
           = last.pool_state.utxo.coin + 1
    /\ last.reserves_a = Some(U64_MAX)

\* the recorded fees are negative: the expect on to_u64 panics in every build
C40_NegativeFees ==
    /\ last.op = "reserve"
    /\ last.pool_state.pool_datum.protocol_fees < 0
    /\ last.reserves_a = None

====
